---- MODULE Spec2Model ----
(***************************************************************************)
(* Flight delay predictor: the serving path of src/app.py, the             *)
(* DelayDurationModel of src/model/delay_duration/model.py, and the        *)
(* training pipeline of src/model/delay_duration/main.py and utils.py.     *)
(*                                                                         *)
(* Units.  Probabilities and attribution scores are integers in            *)
(* thousandths (0.22 is 220), so that the decimal literals of the source   *)
(* add exactly.  Distances are integers in tenths of a mile (1000 mi is    *)
(* 10000).  Durations are integers in thousandths of a minute.             *)
(***************************************************************************)
EXTENDS Integers, Sequences, FiniteSets, TLC

VARIABLES
    model,                \* app.py global `model`
    label_encoders,       \* app.py global `label_encoders`
    shap_explainer,       \* app.py global `shap_explainer`
    op,                   \* the name of the last operation run ("" before the first)
    data,                 \* predict: the request's JSON object
    features,             \* predict: the feature dict of prepare_features
    features_df,          \* predict: the one-row frame handed to the regressor
    duration_prediction,  \* predict: the duration, from the regressor or synthesized
    raw_data,             \* the raw context of the last call
    jitter,               \* simulate_probability: the draw of np.random.uniform(-0.04, 0.04)
    base_prob,            \* simulate_probability: the sum before the jitter is added
    probability,          \* simulate_probability: the value returned
    shap_values,          \* generate_shap_values: outcome of shap_explainer.shap_values
    sim_shap,             \* outcome of the last generate_simulated_shap call
    shap_out,             \* outcome of the last generate_shap_values call
    response,             \* the last response of /api/predict
    m,                    \* a DelayDurationModel object
    m2,                   \* a second DelayDurationModel object (the one load is called on)
    files,                \* the file system: path -> content
    saved,                \* the object whose save last wrote MODEL_FILE, as it was then
    last,                 \* outcome of the last call on m or m2
    args,                 \* arguments of the last call of a function of utils.py
    ret,                  \* outcome of that call
    train,                \* main.py: the locals of main and the stages it has run
    threads,              \* the loader thread and the request thread: where each is
    rng                   \* draws taken so far from NumPy's global generator

vars == <<model, label_encoders, shap_explainer, op, data, features, features_df,
          duration_prediction,
          raw_data, jitter, base_prob, probability, shap_values, sim_shap, shap_out,
          response, m, m2, files, saved, last, args, ret, train, threads, rng>>

globalVars == <<model, label_encoders, shap_explainer>>
requestVars == <<data, features, features_df, duration_prediction, raw_data, jitter, base_prob,
                 probability, shap_values, sim_shap, shap_out, response>>
modelVars == <<m, m2, saved, last>>
utilVars == <<args, ret, train, threads>>

-----------------------------------------------------------------------------
(* Python values *)

\* Python's None, where a string is expected
None == "None"

\* the outcome of a call: the value returned, or the exception raised
Returned(v) == [exc |-> "", val |-> v]
Raised(e) == [exc |-> e, val |-> <<>>]
NotCalled == [exc |-> "not called", val |-> <<>>]

\* the outcome of generate_shap_values, with the strategy that built the list
ShapOutcome(exc, val, strategy) == [exc |-> exc, val |-> val, strategy |-> strategy]
ShapNotCalled == ShapOutcome("not called", <<>>, "")

\* dict.get(key, default)
DictGet(d, k, default) == IF k \in DOMAIN d THEN d[k] ELSE default

\* list[i] with Python's negative indices: IndexError outside -len..len-1
PyIndexOk(list, i) == -Len(list) <= i /\ i < Len(list)
PyIndex(list, i) == IF i >= 0 THEN list[i + 1] ELSE list[Len(list) + i + 1]

Abs(x) == IF x < 0 THEN -x ELSE x

-----------------------------------------------------------------------------
(* app.py: the tables *)

AIRLINES ==
    ("AA" :> "American Airlines") @@ ("DL" :> "Delta Air Lines") @@
    ("UA" :> "United Airlines") @@ ("WN" :> "Southwest Airlines") @@
    ("B6" :> "JetBlue Airways") @@ ("AS" :> "Alaska Airlines") @@
    ("NK" :> "Spirit Airlines") @@ ("F9" :> "Frontier Airlines")

hub_airports == {"ATL", "ORD", "DFW", "DEN", "LAX", "JFK", "SFO", "EWR", "LGA", "PHL"}
problematic == {"EWR", "LGA", "JFK", "SFO", "ORD"}

day_effects ==
    (1 :> -20) @@ (2 :> -30) @@ (3 :> -20) @@ (4 :> 10) @@ (5 :> 60) @@ (6 :> 30) @@ (7 :> 50)

airline_factors ==
    ("AA" :> 20) @@ ("DL" :> -50) @@ ("UA" :> 30) @@ ("WN" :> 10) @@
    ("B6" :> 40) @@ ("AS" :> -40) @@ ("NK" :> 120) @@ ("F9" :> 100)

-----------------------------------------------------------------------------
(* utils.py: get_time_category *)

\* variant of get_time_category: bands closed at both ends
TimeCategoryClosed(hour) ==
    IF 5 <= hour /\ hour <= 9 THEN 1
    ELSE IF 9 <= hour /\ hour <= 12 THEN 2
    ELSE IF 12 <= hour /\ hour <= 17 THEN 3
    ELSE IF 17 <= hour /\ hour <= 21 THEN 4
    ELSE 5

\* the branches of lines 61-70, for an hour that is not NaN
get_time_category(hour) ==
    IF 5 <= hour /\ hour < 9 THEN 1
    ELSE IF 9 <= hour /\ hour < 12 THEN 2
    ELSE IF 12 <= hour /\ hour < 17 THEN 3
    ELSE IF 17 <= hour /\ hour < 21 THEN 4
    ELSE 5

-----------------------------------------------------------------------------
(* app.py: simulate_probability *)

BASE_PROB == 220
PROB_MIN == 50
PROB_MAX == 850
JITTER_MAX == 40

TimeEffect(dep_hour) ==
    IF 16 <= dep_hour /\ dep_hour <= 20 THEN 120
    ELSE IF 6 <= dep_hour /\ dep_hour <= 9 THEN 40
    ELSE IF dep_hour < 6 THEN -60
    ELSE 0

DayEffect(day_of_week) == DictGet(day_effects, day_of_week, 0)

MonthEffect(month) ==
    IF month \in {6, 7, 8} THEN 80
    ELSE IF month = 12 THEN 80
    ELSE IF month \in {9, 10} THEN -40
    ELSE 0

DistanceEffect(distance) ==
    IF distance > 20000 THEN 60
    ELSE IF distance > 10000 THEN 30
    ELSE IF distance < 5000 THEN -20
    ELSE 0

\* variants of AirportEffect: hub and congested made exclusive; the two congested
\* deltas exchanged
AirportEffectElif(origin, dest) ==
    (IF origin \in hub_airports THEN 50
     ELSE IF origin \in problematic THEN 60 ELSE 0)
    + (IF dest \in hub_airports THEN 40
       ELSE IF dest \in problematic THEN 50 ELSE 0)

AirportEffectSwapped(origin, dest) ==
    (IF origin \in hub_airports THEN 50 ELSE 0)
    + (IF dest \in hub_airports THEN 40 ELSE 0)
    + (IF origin \in problematic THEN 50 ELSE 0)
    + (IF dest \in problematic THEN 60 ELSE 0)

\* four independent ifs: an airport in both lists gets both deltas
AirportEffect(origin, dest) ==
    (IF origin \in hub_airports THEN 50 ELSE 0)
    + (IF dest \in hub_airports THEN 40 ELSE 0)
    + (IF origin \in problematic THEN 60 ELSE 0)
    + (IF dest \in problematic THEN 50 ELSE 0)

AirlineEffect(airline) == DictGet(airline_factors, airline, 0)

\* base_prob just before line 272 adds the jitter
SimulateBase(raw) ==
    BASE_PROB
    + TimeEffect(raw.dep_hour)
    + DayEffect(raw.day_of_week)
    + MonthEffect(raw.month)
    + DistanceEffect(raw.distance)
    + AirportEffect(raw.origin, raw.dest)
    + AirlineEffect(raw.airline)

\* variant of Clip: the lower bound forgotten
ClipUpperOnly(x, lo, hi) == IF x > hi THEN hi ELSE x

\* np.clip
Clip(x, lo, hi) == IF x < lo THEN lo ELSE IF x > hi THEN hi ELSE x

\* j is the draw of np.random.uniform(-0.04, 0.04)
simulate_probability(raw, j) == Clip(SimulateBase(raw) + j, PROB_MIN, PROB_MAX)

-----------------------------------------------------------------------------
(* app.py: generate_simulated_shap *)

days == <<"", "Monday", "Tuesday", "Wednesday", "Thursday", "Friday", "Saturday", "Sunday">>

months == <<"", "January", "February", "March", "April", "May", "June",
            "July", "August", "September", "October", "November", "December">>

time_labels ==
    (1 :> "Early Morning") @@ (2 :> "Morning") @@ (3 :> "Afternoon") @@
    (4 :> "Evening Rush") @@ (5 :> "Night")

time_effects == (1 :> -40) @@ (2 :> -20) @@ (3 :> 10) @@ (4 :> 80) @@ (5 :> 20)

ShapRecord(f, d, v, s) == [feature |-> f, displayName |-> d, value |-> v, shap |-> s]

SimDepEffect(dep_hour) ==
    IF 16 <= dep_hour /\ dep_hour <= 20 THEN 100
    ELSE IF 6 <= dep_hour /\ dep_hour <= 9 THEN 40
    ELSE IF dep_hour < 6 THEN -60
    ELSE 10

SimMonthEffect(month) ==
    IF month \in {6, 7, 8} THEN 70
    ELSE IF month = 12 THEN 80
    ELSE IF month \in {9, 10} THEN -40
    ELSE 10

SimDistEffect(distance) ==
    IF distance > 20000 THEN 50
    ELSE IF distance > 10000 THEN 20
    ELSE -20

\* `lst[i] if i < len(lst) else str(i)`: the guard is on the upper end only
GuardedNameRaises(lst, i) == i < Len(lst) /\ ~PyIndexOk(lst, i)
GuardedName(lst, i) == IF i < Len(lst) THEN PyIndex(lst, i) ELSE ToString(i)

\* int(distance) for a distance >= 0, in miles
IntMiles(distance) == distance \div 10

generate_simulated_shap(raw) ==
    IF GuardedNameRaises(days, raw.day_of_week) \/ GuardedNameRaises(months, raw.month)
    THEN Raised("IndexError")
    ELSE Returned(<<
        ShapRecord("dep_hour", "Departure Hour",
                   ToString(raw.dep_hour) \o ":00", SimDepEffect(raw.dep_hour)),
        ShapRecord("DayOfWeek", "Day of Week",
                   GuardedName(days, raw.day_of_week), DayEffect(raw.day_of_week)),
        ShapRecord("Month", "Month",
                   GuardedName(months, raw.month), SimMonthEffect(raw.month)),
        ShapRecord("Distance", "Flight Distance",
                   ToString(IntMiles(raw.distance)) \o " mi", SimDistEffect(raw.distance)),
        ShapRecord("Origin_encoded", "Origin Airport",
                   raw.origin, IF raw.origin \in hub_airports THEN 60 ELSE -20),
        ShapRecord("Dest_encoded", "Destination",
                   raw.dest, IF raw.dest \in hub_airports THEN 50 ELSE -20),
        ShapRecord("Reporting_Airline_encoded", "Airline",
                   DictGet(AIRLINES, raw.airline, raw.airline),
                   AirlineEffect(raw.airline)),
        ShapRecord("dep_time_category", "Time of Day",
                   DictGet(time_labels, raw.time_category, ToString(raw.time_category)),
                   DictGet(time_effects, raw.time_category, 0))
    >>)

-----------------------------------------------------------------------------
(* model.py: DelayDurationModel.__init__ *)

\* self.model: None, an XGBRegressor that was constructed but holds no ensemble, or
\* one that holds the ensemble `booster`
NoBooster == [base |-> 0, slope |-> 0, n |-> 0]
NoRegressor == [state |-> "None", booster |-> NoBooster]
FreshRegressor == [state |-> "unfitted", booster |-> NoBooster]
FittedRegressor(b) == [state |-> "fitted", booster |-> b]

\* self.feature_names: None or a list
NoneList == [isNone |-> TRUE, list |-> <<>>]
SomeList(l) == [isNone |-> FALSE, list |-> l]

NewModel == [model |-> NoRegressor, feature_names |-> NoneList, is_fitted |-> FALSE]

-----------------------------------------------------------------------------
(* The state before any operation has run *)

\* app.py lines 41-43: the three globals are None
NoneGlobal(placeholder) == [isNone |-> TRUE, obj |-> placeholder]
Some(obj) == [isNone |-> FALSE, obj |-> obj]

NoRaw == [origin |-> None, dest |-> None, airline |-> None, distance |-> 0,
          dep_hour |-> 0, day_of_week |-> 0, month |-> 0, time_category |-> 0]

\* the JSON body of /api/predict with its status code; the fields that only round
\* or repeat another field (probability, probabilityPercent, input) are left out
Response(status, err, delay, level, text, shap, used) ==
    [status |-> status, error |-> err, expectedDelay |-> delay, riskLevel |-> level,
     riskText |-> text, shapValues |-> shap, modelUsed |-> used]
NoResponse == Response(0, "", 0, "", "", <<>>, FALSE)

InitGlobals ==
    /\ model = NoneGlobal(NewModel)
    /\ label_encoders = NoneGlobal(<<>>)
    /\ shap_explainer = NoneGlobal(NoBooster)

InitRequest ==
    /\ data = <<>>
    /\ features = <<>>
    /\ features_df = NotCalled
    /\ duration_prediction = 0
    /\ raw_data = NoRaw
    /\ jitter = 0
    /\ base_prob = 0
    /\ probability = 0
    /\ shap_values = NotCalled
    /\ sim_shap = NotCalled
    /\ shap_out = ShapNotCalled
    /\ response = NoResponse

InitModel ==
    /\ m = NewModel
    /\ m2 = NewModel
    /\ saved = NewModel
    /\ last = NotCalled

\* main is not running
NotTraining == [pc |-> ""]

\* no thread has been started
NoThreads == [loader |-> "", request |-> ""]

\* the draws a behaviour takes from NumPy's generator are counted up to MaxDraws
MaxDraws == 2

InitUtil ==
    /\ args = <<>>
    /\ ret = NotCalled
    /\ train = NotTraining
    /\ threads = NoThreads
    /\ rng = 0

InitIdle ==
    /\ op = ""
    /\ InitGlobals
    /\ InitRequest
    /\ InitModel
    /\ InitUtil

-----------------------------------------------------------------------------
(* The heuristic and the simulated attribution as functions of a raw context.      *)
(* The raw contexts are those serving prepare_features can build: any integers for *)
(* the hour, the day of week and the month, any distance, any or no origin,        *)
(* destination and airline, and the time category of the hour.                     *)

\* Each dimension is swept over its whole range against every combination of the
\* core values of the others.
MaxProbeHour == 24
MaxProbeDay == 8
MaxProbeMonth == 13

ProbeHours == (-1)..MaxProbeHour
ProbeDays == (-9)..MaxProbeDay
ProbeMonths == (-14)..MaxProbeMonth
ProbeDistances == {0, 4990, 5000, 10000, 10010, 15000, 20000, 20010}
ProbeOrigins == {"ATL", "ORD", "TPA", "XXX", None}
ProbeDests == {"ATL", "ORD", "TPA", "XXX", None}
ProbeAirlines == DOMAIN AIRLINES \cup {"ZZ", None}

CoreHours == {4, 18}
CoreDays == {2, 5}
CoreMonths == {7, 9}
CoreDistances == {4990, 15000, 20010}
CoreOrigins == {"ATL", "ORD", None}
CoreDests == {"ORD", "XXX"}
CoreAirlines == {"DL", "NK"}

Jitters == {-JITTER_MAX, 0, JITTER_MAX}

RawContext(o, d, a, dist, h, w, mo) ==
    [origin |-> o, dest |-> d, airline |-> a, distance |-> dist, dep_hour |-> h,
     day_of_week |-> w, month |-> mo, time_category |-> get_time_category(h)]

Sweep(Os, Ds, As, Dists, Hs, Ws, Ms) ==
    {RawContext(o, d, a, dist, h, w, mo) :
        o \in Os, d \in Ds, a \in As, dist \in Dists, h \in Hs, w \in Ws, mo \in Ms}

SweptContexts ==
    Sweep(ProbeOrigins, CoreDests, CoreAirlines, CoreDistances, CoreHours, CoreDays, CoreMonths)
    \cup Sweep(CoreOrigins, ProbeDests, CoreAirlines, CoreDistances, CoreHours, CoreDays, CoreMonths)
    \cup Sweep(CoreOrigins, CoreDests, ProbeAirlines, CoreDistances, CoreHours, CoreDays, CoreMonths)
    \cup Sweep(CoreOrigins, CoreDests, CoreAirlines, ProbeDistances, CoreHours, CoreDays, CoreMonths)
    \cup Sweep(CoreOrigins, CoreDests, CoreAirlines, CoreDistances, ProbeHours, CoreDays, CoreMonths)
    \cup Sweep(CoreOrigins, CoreDests, CoreAirlines, CoreDistances, CoreHours, ProbeDays, CoreMonths)
    \cup Sweep(CoreOrigins, CoreDests, CoreAirlines, CoreDistances, CoreHours, CoreDays, ProbeMonths)

InitProb ==
    /\ op = ""
    /\ InitGlobals
    /\ files = <<>>
    /\ data = <<>>
    /\ features = <<>>
    /\ features_df = NotCalled
    /\ duration_prediction = 0
    /\ raw_data \in SweptContexts
    /\ jitter \in Jitters
    /\ base_prob = 0
    /\ probability = 0
    /\ shap_values = NotCalled
    /\ sim_shap = NotCalled
    /\ shap_out = ShapNotCalled
    /\ response = NoResponse
    /\ InitModel
    /\ InitUtil

\* simulate_probability(raw_data), whose random draw is jitter
ProbeProbability ==
    /\ op = ""
    /\ op' = "simulate_probability"
    /\ base_prob' = SimulateBase(raw_data)
    /\ probability' = simulate_probability(raw_data, jitter)
    /\ rng' = rng + 1
    /\ UNCHANGED <<data, features, features_df, duration_prediction, raw_data, jitter, shap_values,
                   sim_shap, shap_out, response>>
    /\ UNCHANGED <<globalVars, modelVars, utilVars, files>>

\* generate_simulated_shap(raw_data, probability)
ProbeSimulatedShap ==
    /\ op \in {"", "simulate_probability"}
    /\ op' = "generate_simulated_shap"
    /\ sim_shap' = generate_simulated_shap(raw_data)
    /\ UNCHANGED <<data, features, features_df, duration_prediction, raw_data, jitter, base_prob,
                   probability, shap_values, shap_out, response>>
    /\ UNCHANGED <<globalVars, modelVars, utilVars, rng, files>>

NextProb == ProbeProbability \/ ProbeSimulatedShap

SpecProb == InitProb /\ [][NextProb]_vars

\* the states in which simulate_probability has returned
ProbabilityReturned == op = "simulate_probability"

\* C1: simulate_probability returns a value in [0.05, 0.85] for every raw context
\* and every jitter in [-0.04, 0.04].
C1_ProbabilityInRange ==
    ProbabilityReturned => (PROB_MIN <= probability /\ probability <= PROB_MAX)

\* C1 case: the sum plus the jitter lies below 0.05 (or above 0.85) and is clamped
C1_Witness ==
    /\ ProbabilityReturned
    /\ base_prob + jitter < PROB_MIN
    /\ probability = PROB_MIN

\* the deltas as the documentation tabulates them
C2_TimeBand(h) ==
    CASE h \in 16..20 -> 120
      [] h \in 6..9 -> 40
      [] h < 6 -> -60
      [] OTHER -> 0

C2_DayTable(w) ==
    CASE w = 1 -> -20 [] w = 2 -> -30 [] w = 3 -> -20 [] w = 4 -> 10
      [] w = 5 -> 60 [] w = 6 -> 30 [] w = 7 -> 50 [] OTHER -> 0

C2_Season(mo) ==
    CASE mo \in 6..8 -> 80 [] mo = 12 -> 80 [] mo \in 9..10 -> -40 [] OTHER -> 0

C2_DistanceBand(dist) ==
    CASE dist > 20000 -> 60
      [] dist <= 20000 /\ dist > 10000 -> 30
      [] dist < 5000 -> -20
      [] OTHER -> 0

C2_AirlineBias(a) ==
    CASE a = "AA" -> 20 [] a = "DL" -> -50 [] a = "UA" -> 30 [] a = "WN" -> 10
      [] a = "B6" -> 40 [] a = "AS" -> -40 [] a = "NK" -> 120 [] a = "F9" -> 100
      [] OTHER -> 0

C2_Membership(airport, set, delta) == IF airport \in set THEN delta ELSE 0

\* C2: before jitter and clamping the probability is 0.22 plus the independently
\* applied deltas of the time band, the day-of-week table, the season, the distance
\* band, origin hub (+0.05), destination hub (+0.04), origin congested (+0.06),
\* destination congested (+0.05) and the airline bias; an airport that is both hub
\* and congested receives both deltas.
C2_BaseIsSumOfDeltas ==
    ProbabilityReturned =>
        base_prob = 220
            + C2_TimeBand(raw_data.dep_hour)
            + C2_DayTable(raw_data.day_of_week)
            + C2_Season(raw_data.month)
            + C2_DistanceBand(raw_data.distance)
            + C2_Membership(raw_data.origin, hub_airports, 50)
            + C2_Membership(raw_data.dest, hub_airports, 40)
            + C2_Membership(raw_data.origin, problematic, 60)
            + C2_Membership(raw_data.dest, problematic, 50)
            + C2_AirlineBias(raw_data.airline)

\* C2 case: origin and destination are both hub and congested, and all four deltas
\* are in the sum
C2_Witness ==
    /\ ProbabilityReturned
    /\ raw_data.origin = "ORD" /\ raw_data.dest = "ORD"
    /\ raw_data.dep_hour = 18 /\ raw_data.day_of_week = 5 /\ raw_data.month = 7
    /\ raw_data.distance = 15000 /\ raw_data.airline = "DL"
    /\ base_prob = 220 + 120 + 60 + 80 + 30 + 50 + 40 + 60 + 50 - 50

\* Scenario 1: hour 18, Friday, July, 1500 mi, ATL to ORD, airline DL
Scenario1 ==
    /\ raw_data.dep_hour = 18 /\ raw_data.day_of_week = 5 /\ raw_data.month = 7
    /\ raw_data.distance = 15000
    /\ raw_data.origin = "ATL" /\ raw_data.dest = "ORD" /\ raw_data.airline = "DL"

\* C3 as stated: in Scenario 1 the sum before jitter is 0.61
C3_Scenario1Is061 ==
    (ProbabilityReturned /\ Scenario1) => base_prob = 610

\* C3: in Scenario 1 the sum before jitter is 0.60 (the destination's congested
\* delta is +0.05), and the value returned is that sum plus the jitter, which lies
\* in [0.05, 0.85] as it stands.
C3_Scenario1Is060 ==
    (ProbabilityReturned /\ Scenario1) =>
        /\ base_prob = 600
        /\ -40 <= jitter /\ jitter <= 40
        /\ probability = 600 + jitter
        /\ 50 <= probability /\ probability <= 850

C3_Witness ==
    /\ ProbabilityReturned
    /\ Scenario1
    /\ jitter = 40
    /\ probability = 640

\* the states in which generate_simulated_shap has returned or raised
SimulatedShapCalled == op = "generate_simulated_shap"

CanonicalSimulatedFeatures ==
    <<"dep_hour", "DayOfWeek", "Month", "Distance", "Origin_encoded", "Dest_encoded",
      "Reporting_Airline_encoded", "dep_time_category">>

\* C6: generate_simulated_shap raises nothing for any raw context prepare_features
\* can produce, and returns exactly 8 records, one per canonical feature.
C6_SimulatedAlwaysSucceeds ==
    SimulatedShapCalled =>
        /\ sim_shap.exc = ""
        /\ Len(sim_shap.val) = 8
        /\ \A i \in 1..8 : sim_shap.val[i].feature = CanonicalSimulatedFeatures[i]

-----------------------------------------------------------------------------
(* config.py *)

FEATURE_COLUMNS ==
    <<"Month", "Quarter", "DayofMonth", "DayOfWeek", "Reporting_Airline_encoded",
      "Origin_encoded", "Dest_encoded", "Distance", "CRSElapsedTime", "dep_hour",
      "arr_hour", "dep_time_category">>

MODEL_FILE == "output/delay_duration_model.json"
ENCODERS_FILE == "output/label_encoders.pkl"

-----------------------------------------------------------------------------
(* app.py: prepare_features *)

\* variant of get_feature_columns: two columns change places
FeatureColumnsSwapped ==
    <<"Month", "Quarter", "DayofMonth", "DayOfWeek", "Reporting_Airline_encoded",
      "Origin_encoded", "Dest_encoded", "CRSElapsedTime", "Distance", "dep_hour",
      "arr_hour", "dep_time_category">>

\* utils.get_feature_columns()
get_feature_columns ==
    <<"Month", "Quarter", "DayofMonth", "DayOfWeek",
      "Reporting_Airline_encoded", "Origin_encoded", "Dest_encoded",
      "Distance", "CRSElapsedTime",
      "dep_hour", "arr_hour", "dep_time_category">>

\* the default of feature_cols inside utils.prepare_features
DefaultFeatureCols ==
    <<"Month", "Quarter", "DayofMonth", "DayOfWeek",
      "Reporting_Airline_encoded", "Origin_encoded", "Dest_encoded",
      "Distance", "CRSElapsedTime",
      "dep_hour", "arr_hour", "dep_time_category">>

\* a frame of one row: its columns in order, and the row
DataFrame(columns, row) == [columns |-> columns, row |-> row]

\* pd.DataFrame([feats])[columns]: KeyError when a column is not a key of feats
SelectColumns(feats, columns) ==
    IF \A i \in 1..Len(columns) : columns[i] \in DOMAIN feats
    THEN Returned(DataFrame(columns,
                            [c \in {columns[i] : i \in 1..Len(columns)} |-> feats[c]]))
    ELSE Raised("KeyError")

\* the keys of AIRPORTS
AIRPORTS ==
    {"ATL", "ORD", "DFW", "DEN", "LAX", "JFK", "SFO", "SEA", "MIA", "BOS", "PHX", "IAH",
     "LAS", "MCO", "CLT", "EWR", "MSP", "DTW", "PHL", "SLC", "LGA", "BWI", "DCA", "SAN",
     "TPA"}

\* calculate_distance on the coordinates of AIRPORTS, in tenths of a mile, for the
\* airports the requests name (haversine, R = 3959)
calculate_distance(origin, dest) ==
    LET pair == {origin, dest} IN
    CASE origin = dest -> 0
      [] pair = {"ATL", "ORD"} -> 6067
      [] pair = {"ATL", "LAX"} -> 19424
      [] pair = {"ATL", "TPA"} -> 4070
      [] pair = {"ORD", "LAX"} -> 17413
      [] pair = {"ORD", "TPA"} -> 10137
      [] pair = {"LAX", "TPA"} -> 21541

DEFAULT_DISTANCE == 10000

\* LabelEncoder.transform([value])[0]: the index of value in classes_, ValueError for
\* a value not seen at fit time
IndexOf(classes, value) == CHOOSE i \in 1..Len(classes) : classes[i] = value
EncoderTransform(classes, value) ==
    IF \E i \in 1..Len(classes) : classes[i] = value
    THEN Returned(IndexOf(classes, value) - 1)
    ELSE Raised("ValueError")

\* variant of EncodeOrZero: a value not seen at fit time gets the next free code
EncodeOrLast(encoders, col, value) ==
    IF col \notin DOMAIN encoders THEN 0
    ELSE LET r == EncoderTransform(encoders[col], value)
         IN IF r.exc = "" THEN r.val ELSE Len(encoders[col])

\* try: label_encoders[col].transform([value])[0]  except (KeyError, ValueError): 0
EncodeOrZero(encoders, col, value) ==
    IF col \notin DOMAIN encoders THEN 0
    ELSE LET r == EncoderTransform(encoders[col], value)
         IN IF r.exc = "" THEN r.val ELSE 0

\* variant of ElapsedTime: a negative difference is not wrapped
ElapsedTimeNoWrap(dep_hour, arr_hour) ==
    LET e == (arr_hour - dep_hour) * 60
    IN IF e > 60 THEN e ELSE 60

\* the elapsed time of lines 155-158, in minutes
ElapsedTime(dep_hour, arr_hour) ==
    LET e == (arr_hour - dep_hour) * 60
        wrapped == IF e < 0 THEN e + 24 * 60 ELSE e
    IN IF wrapped > 60 THEN wrapped ELSE 60

Quarter(month) == (month - 1) \div 3 + 1

\* `if label_encoders:` is false for None and for an empty dict
EncodersUsable == ~label_encoders.isNone /\ DOMAIN label_encoders.obj # {}

\* prepare_features(d) = <<features, raw context>>
prepare_features(d) ==
    LET origin == DictGet(d, "origin", None)
        dest == DictGet(d, "destination", None)
        month == DictGet(d, "month", 6)
        day_of_month == DictGet(d, "day", 15)
        day_of_week == DictGet(d, "dayOfWeek", 3)
        dep_hour == DictGet(d, "depHour", 14)
        arr_hour == DictGet(d, "arrHour", 17)
        airline == DictGet(d, "airline", "AA")
        distance == IF origin \in AIRPORTS /\ dest \in AIRPORTS
                    THEN calculate_distance(origin, dest)
                    ELSE DEFAULT_DISTANCE
        time_category == get_time_category(dep_hour)
        enc(col, v) == IF EncodersUsable THEN EncodeOrZero(label_encoders.obj, col, v) ELSE 0
    IN <<("Month" :> month) @@ ("Quarter" :> Quarter(month)) @@
         ("DayofMonth" :> day_of_month) @@ ("DayOfWeek" :> day_of_week) @@
         ("Distance" :> distance) @@ ("CRSElapsedTime" :> ElapsedTime(dep_hour, arr_hour)) @@
         ("dep_hour" :> dep_hour) @@ ("arr_hour" :> arr_hour) @@
         ("dep_time_category" :> time_category) @@
         ("Reporting_Airline_encoded" :> enc("Reporting_Airline", airline)) @@
         ("Origin_encoded" :> enc("Origin", origin)) @@
         ("Dest_encoded" :> enc("Dest", dest)),
         [origin |-> origin, dest |-> dest, airline |-> airline, distance |-> distance,
          dep_hour |-> dep_hour, day_of_week |-> day_of_week, month |-> month,
          time_category |-> time_category]>>

-----------------------------------------------------------------------------
(* app.py: generate_shap_values *)

format_feature_name(name) ==
    CASE name = "Month" -> "Month"
      [] name = "Quarter" -> "Quarter"
      [] name = "DayofMonth" -> "Day of Month"
      [] name = "DayOfWeek" -> "Day of Week"
      [] name = "Reporting_Airline_encoded" -> "Airline"
      [] name = "Origin_encoded" -> "Origin Airport"
      [] name = "Dest_encoded" -> "Destination"
      [] name = "Distance" -> "Flight Distance"
      [] name = "CRSElapsedTime" -> "Flight Duration"
      [] name = "dep_hour" -> "Departure Hour"
      [] name = "arr_hour" -> "Arrival Hour"
      [] name = "dep_time_category" -> "Time of Day"
      [] OTHER -> name

\* variant of InsertByAbs: ascending order
InsertByAbsAscending(sorted, r) ==
    LET k == Cardinality({i \in 1..Len(sorted) : Abs(sorted[i].shap) <= Abs(r.shap)})
    IN SubSeq(sorted, 1, k) \o <<r>> \o SubSeq(sorted, k + 1, Len(sorted))

\* r placed after every record whose |shap| is at least its own
InsertByAbs(sorted, r) ==
    LET k == Cardinality({i \in 1..Len(sorted) : Abs(sorted[i].shap) >= Abs(r.shap)})
    IN SubSeq(sorted, 1, k) \o <<r>> \o SubSeq(sorted, k + 1, Len(sorted))

\* list.sort(key=lambda x: abs(x['shap']), reverse=True): stable, equal keys keep
\* their order
RECURSIVE SortByAbsShap(_)
SortByAbsShap(list) ==
    IF list = <<>> THEN <<>>
    ELSE InsertByAbs(SortByAbsShap(SubSeq(list, 1, Len(list) - 1)), list[Len(list)])

TOP_N == 8

\* variant of TopFeatures: no cap
AllFeatures(list) == list

\* shap_values_list[:8]
TopFeatures(list) == SubSeq(list, 1, IF Len(list) < TOP_N THEN Len(list) ELSE TOP_N)

\* the records the loop of lines 289-295 appends for the row `values` of the
\* explainer; it raises IndexError at the first column the row does not have
ModelShapRaises(values) == Len(values) < Len(FEATURE_COLUMNS)
ModelShapRecords(feats, values) ==
    [i \in 1..(IF ModelShapRaises(values) THEN Len(values) ELSE Len(FEATURE_COLUMNS)) |->
        ShapRecord(FEATURE_COLUMNS[i], format_feature_name(FEATURE_COLUMNS[i]),
                   ToString(feats[FEATURE_COLUMNS[i]]), values[i])]

\* shap_values_list = generate_simulated_shap(raw_data, probability), then the sort
\* and the cap; an exception of generate_simulated_shap is not caught (lines 298, 301)
SimulatedStrategy(raw) ==
    LET sim == generate_simulated_shap(raw)
    IN IF sim.exc # "" THEN ShapOutcome(sim.exc, <<>>, "")
       ELSE ShapOutcome("", TopFeatures(SortByAbsShap(sim.val)), "simulated")

\* variant of ShapFallback: the simulated records are appended to the records
\* built before the exception
ShapFallbackExtends(partial, raw) ==
    LET sim == generate_simulated_shap(raw)
    IN IF sim.exc # "" THEN ShapOutcome(sim.exc, <<>>, "")
       ELSE ShapOutcome("", TopFeatures(SortByAbsShap(partial \o sim.val)), "simulated")

\* the except branch (lines 296-298): shap_values_list, which holds the records
\* `partial` built before the exception, is rebound to the simulated list
ShapFallback(partial, raw) == SimulatedStrategy(raw)

\* explained is the outcome of shap_explainer.shap_values(features_df): the row
\* shap_values[0], or an exception
generate_shap_values(feats, raw, explained) ==
    IF ~shap_explainer.isNone /\ ~model.isNone
    THEN IF explained.exc # ""
         THEN ShapFallback(<<>>, raw)
         ELSE IF ModelShapRaises(explained.val)
         THEN ShapFallback(ModelShapRecords(feats, explained.val), raw)
         ELSE ShapOutcome("", TopFeatures(SortByAbsShap(ModelShapRecords(feats, explained.val))),
                          "model")
    ELSE SimulatedStrategy(raw)

-----------------------------------------------------------------------------
(* model.py: DelayDurationModel *)

\* XGBRegressor.predict on a feature row, in thousandths of a minute.  The ensemble
\* is a base score, one weight on dep_hour, and the number n of columns it was
\* trained on.
RegressorPredict(booster, X) == booster.base + booster.slope * X["dep_hour"]

\* XGBRegressor.save_model / load_model: the JSON document of the ensemble
SaveModelJson(booster) ==
    [learner |-> <<booster.n, booster.base, booster.slope>>, format |-> "json"]
LoadModelJson(doc) ==
    [base |-> doc.learner[2], slope |-> doc.learner[3], n |-> doc.learner[1]]
CorruptFile == [learner |-> <<>>, format |-> "corrupt"]

\* a call on an object: the object afterwards and the outcome
Call(obj, out) == [obj |-> obj, out |-> out]

\* fit: `trained` is the ensemble the training produces, `fails` tells that
\* self.model.fit raises (lines 83-87)
Fit(self, columns, trained, fails) ==
    LET s1 == [self EXCEPT !.model = FreshRegressor, !.feature_names = SomeList(columns)]
    IN IF fails THEN Call(s1, Raised("XGBoostError"))
       ELSE Call([s1 EXCEPT !.model = FittedRegressor(trained), !.is_fitted = TRUE],
                 Returned(0))

\* variant of Predict: no is_fitted guard
PredictUnguarded(self, X) ==
    IF self.model.state # "fitted" THEN Call(self, Returned(0))
    ELSE Call(self, Returned(RegressorPredict(self.model.booster, X)))

Predict(self, X) ==
    IF ~self.is_fitted THEN Call(self, Raised("ValueError"))
    ELSE IF self.model.state # "fitted" THEN Call(self, Raised("NotFittedError"))
    ELSE Call(self, Returned(RegressorPredict(self.model.booster, X)))

\* feature_importances_ of the ensemble, one score per column
Importances(booster) ==
    [i \in 1..booster.n |-> (Abs(booster.base) + i * Abs(booster.slope)) % 7]

\* r placed after every row whose importance is at least its own
InsertByImportance(sorted, r) ==
    LET k == Cardinality({i \in 1..Len(sorted) : sorted[i].importance >= r.importance})
    IN SubSeq(sorted, 1, k) \o <<r>> \o SubSeq(sorted, k + 1, Len(sorted))

RECURSIVE SortByImportance(_)
SortByImportance(rows) ==
    IF rows = <<>> THEN <<>>
    ELSE InsertByImportance(SortByImportance(SubSeq(rows, 1, Len(rows) - 1)),
                            rows[Len(rows)])

\* the frame of lines 121-124; a feature_names of None is broadcast to every row
ImportanceFrame(self) ==
    LET imp == Importances(self.model.booster)
    IN SortByImportance(
        [i \in 1..Len(imp) |->
            [feature |-> IF self.feature_names.isNone THEN None
                         ELSE self.feature_names.list[i],
             importance |-> imp[i]]])

GetFeatureImportance(self) ==
    IF ~self.is_fitted THEN Call(self, Raised("ValueError"))
    ELSE IF self.model.state # "fitted" THEN Call(self, Raised("NotFittedError"))
    ELSE Call(self, Returned(ImportanceFrame(self)))

\* save: fs is the file system and encoders the optional dict of encoders, written
\* next to model_path
SaveCall(obj, out, fs) == [obj |-> obj, out |-> out, fs |-> fs]
Save(self, fs, model_path, encoders) ==
    IF ~self.is_fitted THEN SaveCall(self, Raised("ValueError"), fs)
    ELSE IF self.model.state # "fitted" THEN SaveCall(self, Raised("NotFittedError"), fs)
    ELSE LET fs1 == (model_path :> SaveModelJson(self.model.booster)) @@ fs
             fs2 == IF encoders.isNone THEN fs1
                    ELSE (ENCODERS_FILE :> [pickle |-> encoders.obj, format |-> "pickle"]) @@ fs1
         IN SaveCall(self, Returned(0), fs2)

\* variant of Load: load_model is not called
LoadWithoutReading(self, fs, model_path) ==
    Call([self EXCEPT !.model = FreshRegressor, !.is_fitted = TRUE], Returned(0))

\* load: fs is the file system
Load(self, fs, model_path) ==
    LET s1 == [self EXCEPT !.model = FreshRegressor]
    IN IF model_path \notin DOMAIN fs \/ fs[model_path].format # "json"
       THEN Call(s1, Raised("XGBoostError"))
       ELSE Call([s1 EXCEPT !.model = FittedRegressor(LoadModelJson(fs[model_path])),
                            !.is_fitted = TRUE], Returned(0))

-----------------------------------------------------------------------------
(* app.py: load_model *)

\* the globals after load_model, and whether it raised
Loaded(mod, enc, expl, exc) == [model |-> mod, label_encoders |-> enc,
                                shap_explainer |-> expl, exc |-> exc]

load_model(fs) ==
    LET r == Load(NewModel, fs, MODEL_FILE)
        mod == IF MODEL_FILE \in DOMAIN fs THEN Some(r.obj) ELSE NoneGlobal(NewModel)
        expl == IF MODEL_FILE \in DOMAIN fs /\ r.obj.model.state # "None"
                THEN Some(r.obj.model.booster) ELSE shap_explainer
        enc == IF ENCODERS_FILE \in DOMAIN fs THEN Some(fs[ENCODERS_FILE].pickle)
               ELSE NoneGlobal(<<>>)
    IN IF MODEL_FILE \in DOMAIN fs /\ r.out.exc # ""
       THEN Loaded(mod, label_encoders, shap_explainer, r.out.exc)
       ELSE IF ENCODERS_FILE \in DOMAIN fs /\ fs[ENCODERS_FILE].format # "pickle"
       THEN Loaded(mod, label_encoders, expl, "UnpicklingError")
       ELSE Loaded(mod, enc, expl, "")

-----------------------------------------------------------------------------
(* app.py: predict *)

\* round(x, 1) of a duration in thousandths: to the nearest 100, ties to even
Round1(x) ==
    LET q == x \div 100
        r == x % 100
    IN IF r < 50 THEN q * 100
       ELSE IF r > 50 THEN (q + 1) * 100
       ELSE IF q % 2 = 0 THEN q * 100 ELSE (q + 1) * 100

\* variant of RiskLevel: strict comparisons
RiskLevelStrict(p) ==
    IF p > 500 THEN "high" ELSE IF p > 300 THEN "medium" ELSE "low"

RiskLevel(p) ==
    IF p >= 500 THEN "high" ELSE IF p >= 300 THEN "medium" ELSE "low"

RiskText(p) ==
    IF p >= 500 THEN "High risk of significant delay"
    ELSE IF p >= 300 THEN "Moderate risk of delay"
    ELSE "Low risk of delay"

\* model is not None and model.is_fitted
ModelFitted == ~model.isNone /\ model.obj.is_fitted

\* the status object of /api/model-info (lines 547-551)
ModelInfo ==
    [modelLoaded |-> ModelFitted,
     shapAvailable |-> ~shap_explainer.isNone,
     encodersLoaded |-> ~label_encoders.isNone]

\* variant of SynthesizedDuration: the threshold 0.25 is included
SynthesizedDurationInclusive(p, dj) == IF p >= 250 THEN 15000 + p * 60 + dj ELSE 0

\* the duration of lines 499-502 when no fitted model is present; dj is the draw of
\* np.random.uniform(0, 20)
SynthesizedDuration(p, dj) == IF p > 250 THEN 15000 + p * 60 + dj ELSE 0

\* the locals of the handler when it leaves, and its response
Handled(feats, fd, raw, base, p, duration, explained, sim, shap, resp) ==
    [features |-> feats, features_df |-> fd, raw_data |-> raw, base_prob |-> base,
     probability |-> p,
     duration_prediction |-> duration, shap_values |-> explained, sim_shap |-> sim,
     shap_out |-> shap, response |-> resp]

ErrorResponse(status, err) == Response(status, err, 0, "", "", <<>>, FALSE)

\* the draws a request has taken from NumPy's generator: the one of
\* simulate_probability (line 272) when the handler got that far (a probability is
\* at least 0.05), and the one of line 500
Draws(r) ==
    IF r.probability = 0 THEN 0
    ELSE IF ~ModelFitted /\ r.probability > 250 THEN 2
    ELSE 1

\* d is the JSON object, j and dj the two random draws, explained the outcome of the
\* explainer if it is called
predict(d, j, dj, explained) ==
    IF DOMAIN d = {}
    THEN Handled(<<>>, NotCalled, NoRaw, 0, 0, 0, NotCalled, NotCalled, ShapNotCalled,
                 ErrorResponse(400, "No data provided"))
    ELSE
    LET pf == prepare_features(d)
        feats == pf[1]
        raw == pf[2]
        fd == SelectColumns(feats, FEATURE_COLUMNS)
        predicted == Predict(model.obj, fd.val.row).out
        p == simulate_probability(raw, j)
        duration == IF ModelFitted THEN predicted.val ELSE SynthesizedDuration(p, dj)
        shap == generate_shap_values(feats, raw, explained)
        usedSim == shap.strategy = "simulated" \/ shap.exc # ""
    IN IF fd.exc # ""
       THEN Handled(feats, fd, raw, 0, 0, 0, NotCalled, NotCalled, ShapNotCalled,
                    ErrorResponse(500, fd.exc))
       ELSE IF ModelFitted /\ predicted.exc # ""
       THEN Handled(feats, fd, raw, 0, 0, 0, NotCalled, NotCalled, ShapNotCalled,
                    ErrorResponse(500, predicted.exc))
       ELSE IF shap.exc # ""
       THEN Handled(feats, fd, raw, SimulateBase(raw), p, duration, explained,
                    generate_simulated_shap(raw), shap, ErrorResponse(500, shap.exc))
       ELSE Handled(feats, fd, raw, SimulateBase(raw), p, duration, explained,
                    IF usedSim THEN generate_simulated_shap(raw) ELSE NotCalled, shap,
                    Response(200, "", Round1(IF duration > 0 THEN duration ELSE 0),
                             RiskLevel(p), RiskText(p), shap.val, ModelFitted))

-----------------------------------------------------------------------------
(* The serving process *)

MaxBooster == 2
MaxSeed == 2

\* the ensembles training can produce: outputs above and below zero
Booster(k) == [base |-> 45000 - (k - 1) * 50000, slope |-> (k % 2) * 500,
               n |-> Len(FEATURE_COLUMNS)]
Boosters == {Booster(k) : k \in 1..MaxBooster}

\* a fitted set of encoders, and one that lacks the Dest column
FittedEncoders ==
    ("Reporting_Airline" :> <<"AA", "DL", "NK">>) @@
    ("Origin" :> <<"ATL", "ORD", "TPA">>) @@
    ("Dest" :> <<"LAX", "ORD">>)
EncoderDicts == {FittedEncoders}

ModelFiles == {(MODEL_FILE :> SaveModelJson(b)) : b \in Boosters}
                  \cup {(MODEL_FILE :> CorruptFile), <<>>}
CorruptPickle == [pickle |-> <<>>, format |-> "corrupt"]
EncoderFiles == {(ENCODERS_FILE :> [pickle |-> e, format |-> "pickle"]) : e \in EncoderDicts}
                    \cup {(ENCODERS_FILE :> CorruptPickle), <<>>}
ServingFileSystems == {mf @@ ef : mf \in ModelFiles, ef \in EncoderFiles}

\* a key of the request: absent, or one of the values
Opt(key, values) == {key :> v : v \in values} \cup {<<>>}

Requests ==
    {o @@ d @@ mo @@ w @@ h @@ ah @@ a :
        o \in Opt("origin", {"ORD", "TPA"}),
        d \in Opt("destination", {"ORD", "XXX"}),
        mo \in Opt("month", {12, -14}),
        w \in Opt("dayOfWeek", {5, -9}),
        h \in Opt("depHour", {4, 18}),
        ah \in Opt("arrHour", {2}),
        a \in Opt("airline", {"NK", "DL"})}

DurationJitters == {0, 7340, 20000}

\* the rows shap_explainer.shap_values can return: one score per column
ShapVector(seed) ==
    [i \in 1..Len(FEATURE_COLUMNS) |-> ((((seed * 7 + i * 5) * (i + seed)) % 19) - 9) * 10]

\* the explainer returns a row, returns a row with too few columns, or raises
ExplainerOutcomes ==
    {Returned(ShapVector(seed)) : seed \in 1..MaxSeed}
        \cup {Returned(SubSeq(ShapVector(1), 1, 5))}
        \cup {Raised("Exception")}

Init ==
    /\ InitIdle
    /\ files \in ServingFileSystems

\* load_model() at process start; an exception ends the process
LoadModel ==
    /\ op = ""
    /\ \E r \in {load_model(files)} :
          /\ model' = r.model
          /\ label_encoders' = r.label_encoders
          /\ shap_explainer' = r.shap_explainer
          /\ op' = IF r.exc = "" THEN "load_model" ELSE "crashed"
    /\ UNCHANGED <<requestVars, modelVars, utilVars, rng, files>>

\* one request to /api/predict, start to response
PredictRequest ==
    /\ op \in {"", "load_model", "idle"}
    /\ \E d \in Requests, j \in Jitters,
          dj \in (IF ModelFitted THEN {0} ELSE DurationJitters),
          explained \in (IF ~shap_explainer.isNone /\ ~model.isNone
                         THEN ExplainerOutcomes ELSE {NotCalled}) :
        \E r \in {predict(d, j, dj, explained)} :
           /\ rng + Draws(r) <= MaxDraws
           /\ rng' = rng + Draws(r)
           /\ data' = d
           /\ jitter' = j
           /\ features' = r.features
           /\ features_df' = r.features_df
           /\ raw_data' = r.raw_data
           /\ base_prob' = r.base_prob
           /\ probability' = r.probability
           /\ duration_prediction' = r.duration_prediction
           /\ shap_values' = r.shap_values
           /\ sim_shap' = r.sim_shap
           /\ shap_out' = r.shap_out
           /\ response' = r.response
    /\ op' = "predict"
    /\ UNCHANGED <<globalVars, modelVars, utilVars, files>>

\* the handler has returned: its locals are gone
EndRequest ==
    /\ op = "predict"
    /\ op' = "idle"
    /\ data' = <<>>
    /\ features' = <<>>
    /\ features_df' = NotCalled
    /\ duration_prediction' = 0
    /\ raw_data' = NoRaw
    /\ jitter' = 0
    /\ base_prob' = 0
    /\ probability' = 0
    /\ shap_values' = NotCalled
    /\ sim_shap' = NotCalled
    /\ shap_out' = ShapNotCalled
    /\ response' = NoResponse
    /\ UNCHANGED <<globalVars, modelVars, utilVars, rng, files>>

Next == LoadModel \/ PredictRequest \/ EndRequest

Spec == Init /\ [][Next]_vars

\* the states in which a request has been answered with a result
Answered == op = "predict" /\ response.status = 200

\* C4: the risk tier of a prediction result is high iff p >= 0.5, medium iff
\* 0.3 <= p < 0.5 and low otherwise, whatever the duration and whether or not the
\* model is loaded.
C4_RiskTierFromProbability ==
    Answered =>
        /\ (response.riskLevel = "high") <=> (probability >= 500)
        /\ (response.riskLevel = "medium") <=> (300 <= probability /\ probability < 500)
        /\ (response.riskLevel = "low") <=> (probability < 300)

\* C4 case: a result whose probability is exactly 0.5, from the fitted model
C4_Witness ==
    /\ Answered
    /\ probability = 500
    /\ response.riskLevel = "high"
    /\ response.modelUsed

\* the list generate_shap_values has returned in the last request
ShapReturned == op = "predict" /\ shap_out.exc = ""

C5_NonIncreasing(list) ==
    \A i \in 1..(Len(list) - 1) : Abs(list[i].shap) >= Abs(list[i + 1].shap)

\* C5: in both attribution modes the list returned has at most 8 records, of
\* non-increasing absolute contribution; in model-derived mode the 8 returned are
\* the 8 of largest absolute contribution among the 12 columns.
C5_TopEightSorted ==
    ShapReturned =>
        /\ Len(shap_out.val) <= 8
        /\ C5_NonIncreasing(shap_out.val)
        /\ shap_out.strategy = "model" =>
            /\ Len(shap_out.val) = 8
            /\ \A i, k \in 1..8 : i # k => shap_out.val[i].feature # shap_out.val[k].feature
            /\ \A i \in 1..8 : \E c \in 1..12 :
                /\ shap_out.val[i].feature = FEATURE_COLUMNS[c]
                /\ shap_out.val[i].shap = shap_values.val[c]
            /\ \A c \in 1..12 :
                \/ \E i \in 1..8 : shap_out.val[i].feature = FEATURE_COLUMNS[c]
                \/ \A i \in 1..8 : Abs(shap_values.val[c]) <= Abs(shap_out.val[i].shap)

\* C5 case: a model-derived list whose 12 scores were not in order and of which the
\* four smallest were cut
C5_Witness ==
    /\ ShapReturned
    /\ shap_out.strategy = "model"
    /\ Len(shap_out.val) = 8
    /\ \E c \in 1..11 : Abs(shap_values.val[c]) < Abs(shap_values.val[c + 1])
    /\ Abs(shap_out.val[1].shap) > Abs(shap_out.val[8].shap)

\* the explainer was called in the last request and raised, in the call or while
\* the records were built
ExplainerFailed ==
    /\ op = "predict"
    /\ shap_values.exc # "not called"
    /\ (shap_values.exc # "" \/ Len(shap_values.val) < 12)

\* C7: when the explainer raises at any point during attribution,
\* generate_shap_values returns the simulated strategy's records and the request
\* completes successfully.
C7_ExplainerFailureFallsBack ==
    ExplainerFailed =>
        /\ shap_out.exc = ""
        /\ shap_out.strategy = "simulated"
        /\ Len(shap_out.val) = 8
        /\ response.status = 200
        /\ response.shapValues = shap_out.val

-----------------------------------------------------------------------------
(* The life of a DelayDurationModel: m is fitted and saved, m2 is a fresh object   *)
(* that loads the file.                                                             *)

\* feature rows to predict on, with the columns of FEATURE_COLUMNS
FeatureRow(h) ==
    ("Month" :> 6) @@ ("Quarter" :> 2) @@ ("DayofMonth" :> 15) @@ ("DayOfWeek" :> 3) @@
    ("Reporting_Airline_encoded" :> 0) @@ ("Origin_encoded" :> 0) @@ ("Dest_encoded" :> 0) @@
    ("Distance" :> DEFAULT_DISTANCE) @@ ("CRSElapsedTime" :> 60) @@ ("dep_hour" :> h) @@
    ("arr_hour" :> 17) @@ ("dep_time_category" :> get_time_category(h))
Rows == {FeatureRow(4), FeatureRow(18)}

InitLife ==
    /\ InitIdle
    /\ files = <<>>

frameLife == <<globalVars, requestVars, utilVars, rng>>

\* m.fit(X_train, y_train, ...)
MFit ==
    \E trained \in Boosters, fails \in BOOLEAN :
        \E r \in {Fit(m, FEATURE_COLUMNS, trained, fails)} :
            /\ m' = r.obj
            /\ last' = r.out
            /\ op' = "m.fit"
            /\ UNCHANGED <<m2, files, saved, frameLife>>

\* m.predict(X)
MPredict ==
    \E X \in Rows :
        \E r \in {Predict(m, X)} :
            /\ m' = r.obj
            /\ last' = r.out
            /\ op' = "m.predict"
            /\ UNCHANGED <<m2, files, saved, frameLife>>

\* m.get_feature_importance()
MGetFeatureImportance ==
    \E r \in {GetFeatureImportance(m)} :
        /\ m' = r.obj
        /\ last' = r.out
        /\ op' = "m.get_feature_importance"
        /\ UNCHANGED <<m2, files, saved, frameLife>>

\* m.save(MODEL_FILE, encoders)
MSave ==
    \E encoders \in {NoneGlobal(<<>>), Some(FittedEncoders)} :
        \E r \in {Save(m, files, MODEL_FILE, encoders)} :
            /\ m' = r.obj
            /\ files' = r.fs
            /\ saved' = IF r.out.exc = "" THEN m ELSE saved
            /\ last' = r.out
            /\ op' = "m.save"
            /\ UNCHANGED <<m2, frameLife>>

\* m2.load(MODEL_FILE)
M2Load ==
    \E r \in {Load(m2, files, MODEL_FILE)} :
        /\ m2' = r.obj
        /\ last' = r.out
        /\ op' = "m2.load"
        /\ UNCHANGED <<m, files, saved, frameLife>>

\* m2.predict(X)
M2Predict ==
    \E X \in Rows :
        \E r \in {Predict(m2, X)} :
            /\ m2' = r.obj
            /\ last' = r.out
            /\ op' = "m2.predict"
            /\ UNCHANGED <<m, files, saved, frameLife>>

\* m2.get_feature_importance()
M2GetFeatureImportance ==
    \E r \in {GetFeatureImportance(m2)} :
        /\ m2' = r.obj
        /\ last' = r.out
        /\ op' = "m2.get_feature_importance"
        /\ UNCHANGED <<m, files, saved, frameLife>>

NextLife ==
    \/ MFit \/ MPredict \/ MGetFeatureImportance \/ MSave
    \/ M2Load \/ M2Predict \/ M2GetFeatureImportance

SpecLife == InitLife /\ [][NextLife]_vars

\* the last fit or load on the object completed
InFittedOrLoadedState(obj) == obj.is_fitted /\ obj.model.state = "fitted"

C8_Call(before, after, name) ==
    (op' \in {name \o ".predict", name \o ".get_feature_importance"}) =>
        /\ ~before.is_fitted => (last'.exc # "" /\ after = before)
        /\ InFittedOrLoadedState(before) => last'.exc = ""

\* C8: on a model that is not fitted, predict and get_feature_importance raise and
\* leave model, feature_names and is_fitted as they were; in the Fitted or Loaded
\* state both return a value.
C8_UnfittedCallsRaise ==
    [][C8_Call(m, m', "m") /\ C8_Call(m2, m2', "m2")]_vars

\* C8 case: predict on a model that was never fitted or loaded has raised
C8_Witness ==
    /\ op = "m.predict"
    /\ m = NewModel
    /\ last.exc = "ValueError"

\* the states right after a load of the saved file into m2 has returned
LoadedSavedFile == op = "m2.load" /\ last.exc = "" /\ MODEL_FILE \in DOMAIN files

\* C9: after save on a fitted model and load of the file into a fresh model, the
\* loaded model has is_fitted = true and the feature-name list fit stored.
C9_LoadRestoresFeatureNames ==
    LoadedSavedFile =>
        /\ m2.is_fitted
        /\ m2.feature_names = saved.feature_names

-----------------------------------------------------------------------------
(* The functions of utils.py, each called once on arguments drawn from bounded sets *)

MaxRows == 5

\* the dates of the rows, as (Year, Month, DayofMonth)
Dates == {<<2023, 12, 31>>, <<2024, 1, 1>>, <<2024, 1, 2>>}

\* the frame df, then X and y as prepare_features cuts them out of it; every row
\* keeps its index label
Frame(dates) ==
    [i \in 1..Len(dates) |->
        [index |-> i, Year |-> dates[i][1], Month |-> dates[i][2],
         DayofMonth |-> dates[i][3]]]
FeaturesOf(df) ==
    [i \in 1..Len(df) |->
        [index |-> df[i].index, Month |-> df[i].Month, DayofMonth |-> df[i].DayofMonth]]
TargetOf(df) ==
    [i \in 1..Len(df) |-> [index |-> df[i].index, ArrDelayMinutes |-> 15 + df[i].index]]
Frames == UNION {{Frame(dates) : dates \in [1..n -> Dates]} : n \in 0..MaxRows}

\* test_size, in tenths
TestSizes == 1..9

\* The test sizes for which the double 1 - test_size lies so far below the decimal
\* value that a product len(X) * (1 - test_size) which is a whole number in exact
\* arithmetic comes out just below it: 1 - 0.8 is 0.19999999999999996 and 1 - 0.9 is
\* 0.09999999999999998.  (1 - 0.3 is low as well, but its products round back to the
\* whole number for every len(X) below 90.)
LowDifference == {8, 9}

\* int(len(X) * (1 - test_size)): the product in double arithmetic, truncated
SplitIdx(n, test_size) ==
    LET tenths == n * (10 - test_size)
    IN IF n > 0 /\ tenths % 10 = 0 /\ test_size \in LowDifference
       THEN tenths \div 10 - 1
       ELSE tenths \div 10

\* variant of temporal_train_test_split: the training rows are taken from the end
SplitFromEnd(X, y, df, test_size) ==
    LET n == Len(X)
        split_idx == SplitIdx(n, test_size)
    IN [X_train |-> SubSeq(X, n - split_idx + 1, n), X_test |-> SubSeq(X, 1, n - split_idx),
        y_train |-> SubSeq(y, n - split_idx + 1, n), y_test |-> SubSeq(y, 1, n - split_idx)]

temporal_train_test_split(X, y, df, test_size) ==
    LET split_idx == SplitIdx(Len(X), test_size)
    IN [X_train |-> SubSeq(X, 1, split_idx), X_test |-> SubSeq(X, split_idx + 1, Len(X)),
        y_train |-> SubSeq(y, 1, split_idx), y_test |-> SubSeq(y, split_idx + 1, Len(y))]

frameUtil == <<globalVars, requestVars, modelVars, files, train, threads, rng>>

InitCalls ==
    /\ InitIdle
    /\ files = <<>>

CallSplit ==
    /\ op = ""
    /\ \E df \in Frames, test_size \in TestSizes :
        /\ args' = [X |-> FeaturesOf(df), y |-> TargetOf(df), df |-> df,
                    test_size |-> test_size]
        /\ ret' = Returned(temporal_train_test_split(FeaturesOf(df), TargetOf(df), df,
                                                     test_size))
    /\ op' = "temporal_train_test_split"
    /\ UNCHANGED frameUtil

\* the states right after temporal_train_test_split has returned
SplitReturned == op = "temporal_train_test_split" /\ ret.exc = ""

\* floor(n * (1 - testFraction)) in exact arithmetic, testFraction in tenths
FloorSplitIndex(n, tenths) == (n * (10 - tenths)) \div 10

\* C11: for an input of length n and a test fraction in (0,1) the split returns
\* train = rows [0, splitIndex) and test = rows [splitIndex, n) with
\* splitIndex = floor(n * (1 - testFraction)); the lengths add up to n, the test
\* part has n - splitIndex rows, and X and y are cut at the same index.
C11_SplitAtFloor ==
    SplitReturned =>
        LET n == Len(args.X)
            k == FloorSplitIndex(n, args.test_size)
        IN /\ ret.val.X_train = SubSeq(args.X, 1, k)
           /\ ret.val.X_test = SubSeq(args.X, k + 1, n)
           /\ ret.val.y_train = SubSeq(args.y, 1, k)
           /\ ret.val.y_test = SubSeq(args.y, k + 1, n)
           /\ Len(ret.val.X_train) + Len(ret.val.X_test) = n
           /\ Len(ret.val.X_test) = n - k

\* (Year, Month, DayofMonth) of the row of df with the index label i
DateOf(df, i) == <<df[i].Year, df[i].Month, df[i].DayofMonth>>
DateLeq(a, b) ==
    \/ a[1] < b[1]
    \/ a[1] = b[1] /\ a[2] < b[2]
    \/ a[1] = b[1] /\ a[2] = b[2] /\ a[3] <= b[3]
SortedByDate(df) ==
    \A i \in 1..(Len(df) - 1) : DateLeq(DateOf(df, i), DateOf(df, i + 1))

\* C12: the split never reorders rows: train followed by test is the input, for X
\* and for y; and when the input is sorted ascending by (year, month, day) every
\* date in train is at most every date in test.
C12_SplitKeepsOrder ==
    SplitReturned =>
        /\ ret.val.X_train \o ret.val.X_test = args.X
        /\ ret.val.y_train \o ret.val.y_test = args.y
        /\ SortedByDate(args.df) =>
            \A i \in 1..Len(ret.val.X_train), j \in 1..Len(ret.val.X_test) :
                DateLeq(DateOf(args.df, ret.val.X_train[i].index),
                        DateOf(args.df, ret.val.X_test[j].index))

\* C12 case: a sorted input over three different dates, cut into two non-empty parts
C12_Witness ==
    /\ SplitReturned
    /\ SortedByDate(args.df)
    /\ Len(ret.val.X_train) >= 2
    /\ Len(ret.val.X_test) >= 2
    /\ DateOf(args.df, 1) # DateOf(args.df, Len(args.df))
    /\ DateOf(args.df, ret.val.X_train[Len(ret.val.X_train)].index)
           # DateOf(args.df, ret.val.X_test[1].index)

\* a float that may be NaN
Float(v) == [nan |-> FALSE, v |-> v]
NaN == [nan |-> TRUE, v |-> 0]

\* get_time_category with its NaN branch (lines 59-60)
TimeCategoryOf(hour) ==
    IF hour.nan THEN NaN ELSE Float(get_time_category(hour.v))

CallTimeCategory ==
    /\ op = ""
    /\ \E hour \in {Float(h) : h \in ProbeHours} \cup {NaN} :
        /\ args' = [hour |-> hour]
        /\ ret' = Returned(TimeCategoryOf(hour))
    /\ op' = "get_time_category"
    /\ UNCHANGED frameUtil

\* the states right after get_time_category has returned for an hour that is a number
TimeCategoryReturned == op = "get_time_category" /\ ~args.hour.nan

\* C13: for every integer hour h in 0..23, get_time_category(h) is in {1,..,5} with
\* half-open bands: 5 <= h < 9 gives 1, 9 <= h < 12 gives 2, 12 <= h < 17 gives 3,
\* 17 <= h < 21 gives 4, every other hour 5; hours 5, 9, 12, 17, 21 and 4 give
\* 1, 2, 3, 4, 5 and 5.
C13_TimeBands ==
    TimeCategoryReturned =>
        LET h == args.hour.v
            c == ret.val.v
        IN /\ ret.exc = "" /\ ~ret.val.nan
           /\ c \in 1..5
           /\ (c = 1) <=> (5 <= h /\ h < 9)
           /\ (c = 2) <=> (9 <= h /\ h < 12)
           /\ (c = 3) <=> (12 <= h /\ h < 17)
           /\ (c = 4) <=> (17 <= h /\ h < 21)
           /\ (c = 5) <=> (h < 5 \/ h >= 21)
           /\ h = 5 => c = 1
           /\ h = 9 => c = 2
           /\ h = 12 => c = 3
           /\ h = 17 => c = 4
           /\ h = 21 => c = 5
           /\ h = 4 => c = 5

\* C13 case: the hour 21, where the evening band ends
C13_Witness ==
    /\ TimeCategoryReturned
    /\ args.hour.v = 21
    /\ ret.val = Float(5)

\* str(int): the decimal digits of a number that is not negative
DigitChars == <<"0", "1", "2", "3", "4", "5", "6", "7", "8", "9">>
RECURSIVE Str(_)
Str(n) == IF n < 10 THEN <<DigitChars[n + 1]>>
          ELSE Str(n \div 10) \o <<DigitChars[(n % 10) + 1]>>

\* str.zfill(width)
ZFill(s, width) ==
    IF Len(s) >= width THEN s ELSE [i \in 1..(width - Len(s)) |-> "0"] \o s

\* int(s) of a string: ValueError unless s is a non-empty run of digits
DigitValue(c) == (CHOOSE i \in 1..10 : DigitChars[i] = c) - 1
IsDigit(c) == \E i \in 1..10 : DigitChars[i] = c
RECURSIVE DigitsValue(_)
DigitsValue(s) ==
    IF s = <<>> THEN 0
    ELSE 10 * DigitsValue(SubSeq(s, 1, Len(s) - 1)) + DigitValue(s[Len(s)])
ParseInt(s) ==
    IF s # <<>> /\ \A i \in 1..Len(s) : IsDigit(s[i])
    THEN Returned(DigitsValue(s)) ELSE Raised("ValueError")

\* the slice s[:k]
Prefix(s, k) == SubSeq(s, 1, IF Len(s) < k THEN Len(s) ELSE k)

\* s.split(':')[0]
BeforeColon(s) ==
    IF \E i \in 1..Len(s) : s[i] = ":"
    THEN SubSeq(s, 1, (CHOOSE i \in 1..Len(s) :
                          s[i] = ":" /\ \A k \in 1..(i - 1) : s[k] # ":") - 1)
    ELSE s

\* the values of a time column: NaN, an HHMM number, or a string
NaNTime == [kind |-> "nan", n |-> 0, s |-> <<>>]
IntTime(n) == [kind |-> "int", n |-> n, s |-> <<>>]
StrTime(s) == [kind |-> "str", n |-> 0, s |-> s]

\* the hour of a parsed time, as the Float the caller gets
HourOf(parsed) == IF parsed.exc = "" THEN Returned(Float(parsed.val)) ELSE parsed

\* variant of parse_time_to_hour: the digits are not padded to four
ParseWithoutPadding(time_val) ==
    IF time_val.kind = "nan" THEN Returned(NaN)
    ELSE IF time_val.kind = "str" /\ \E i \in 1..Len(time_val.s) : time_val.s[i] = ":"
    THEN HourOf(ParseInt(BeforeColon(time_val.s)))
    ELSE LET n == IF time_val.kind = "str" THEN ParseInt(time_val.s)
                  ELSE Returned(time_val.n)
         IN IF n.exc # "" THEN n
            ELSE HourOf(ParseInt(Prefix(Str(n.val), 2)))

parse_time_to_hour(time_val) ==
    IF time_val.kind = "nan" THEN Returned(NaN)
    ELSE IF time_val.kind = "str" /\ \E i \in 1..Len(time_val.s) : time_val.s[i] = ":"
    THEN HourOf(ParseInt(BeforeColon(time_val.s)))
    ELSE LET n == IF time_val.kind = "str" THEN ParseInt(time_val.s)
                  ELSE Returned(time_val.n)
         IN IF n.exc # "" THEN n
            ELSE HourOf(ParseInt(Prefix(ZFill(Str(n.val), 4), 2)))

\* the two ways a database writes the time H:M: the number 100 * H + M and the
\* string "HH:MM:SS"
HoursOfDay == 0..23
MinutesOfHour == 0..59
Two(n) == ZFill(Str(n), 2)
ClockString(H, M) == Two(H) \o <<":">> \o Two(M) \o <<":", "0", "0">>
TimeValues(H, M) == {IntTime(100 * H + M), StrTime(ClockString(H, M))}

CallParseTime ==
    /\ op = ""
    /\ \/ \E H \in HoursOfDay, M \in MinutesOfHour :
            \E time_val \in TimeValues(H, M) :
                /\ args' = [time_val |-> time_val, hour |-> H, minute |-> M]
                /\ ret' = parse_time_to_hour(time_val)
       \/ /\ args' = [time_val |-> NaNTime, hour |-> 0, minute |-> 0]
          /\ ret' = parse_time_to_hour(NaNTime)
    /\ op' = "parse_time_to_hour"
    /\ UNCHANGED frameUtil

\* the states right after parse_time_to_hour has been called on a time
TimeParsed == op = "parse_time_to_hour" /\ args.time_val.kind # "nan"

\* C14: for every hour H in 0..23 and minute M in 0..59, parse_time_to_hour of the
\* number 100 * H + M and of the string "HH:MM:SS" both return H, a value in 0..23.
C14_BothFormsGiveHour ==
    TimeParsed =>
        /\ ret.exc = ""
        /\ ret.val = Float(args.hour)
        /\ ret.val.v \in 0..23

\* C14 case: 1530 has been parsed to 15
C14_Witness ==
    /\ TimeParsed
    /\ args.time_val = IntTime(1530)
    /\ ret.val = Float(15)

\* C14 case: "15:30:00" has been parsed to 15
C14_WitnessString ==
    /\ TimeParsed
    /\ args.time_val = StrTime(<<"1", "5", ":", "3", "0", ":", "0", "0">>)
    /\ ret.val = Float(15)

\* the categorical values of the frames, in the order sorted() gives them
Alphabet == <<"AA", "ATL", "DL", "LAX", "NK", "ORD", "TPA", "XXX", "ZZ">>

\* the default of categorical_cols (line 250)
CATEGORICAL_COLUMNS == <<"Reporting_Airline", "Origin", "Dest">>

\* LabelEncoder.fit: classes_ are the distinct values, sorted
IsAmong(df, col, v) == \E i \in 1..Len(df) : df[i][col] = v
LabelEncoderFit(df, col) == SelectSeq(Alphabet, LAMBDA v : IsAmong(df, col, v))

\* the frame with the column col + "_encoded" added, by the encoder `classes`
WithEncoded(df, col, classes) ==
    [i \in 1..Len(df) |->
        df[i] @@ ((col \o "_encoded") :> EncoderTransform(classes, df[i][col]).val)]

\* le.transform(df[col]) raises ValueError when a value is not among classes_
TransformRaises(df, col, classes) ==
    \E i \in 1..Len(df) : EncoderTransform(classes, df[i][col]).exc # ""

\* training mode (lines 259-267): a new encoder is fitted for every column
RECURSIVE FitColumns(_, _, _)
FitColumns(df, cols, encoders) ==
    IF cols = <<>> THEN Returned([df |-> df, encoders |-> encoders])
    ELSE LET col == Head(cols)
             classes == LabelEncoderFit(df, col)
         IN FitColumns(WithEncoded(df, col, classes), Tail(cols),
                       encoders @@ (col :> classes))

\* inference mode (lines 268-274): encoders[col] is applied to every column
RECURSIVE TransformColumns(_, _, _)
TransformColumns(df, cols, encoders) ==
    IF cols = <<>> THEN Returned([df |-> df, encoders |-> encoders])
    ELSE LET col == Head(cols)
         IN IF col \notin DOMAIN encoders THEN Raised("KeyError")
            ELSE IF TransformRaises(df, col, encoders[col]) THEN Raised("ValueError")
            ELSE TransformColumns(WithEncoded(df, col, encoders[col]), Tail(cols),
                                  encoders)

encode_categorical_features(df, encoders) ==
    IF encoders.isNone THEN FitColumns(df, CATEGORICAL_COLUMNS, <<>>)
    ELSE TransformColumns(df, CATEGORICAL_COLUMNS, encoders.obj)

\* frames of up to two flights, with values the fitted encoders know and do not know
MaxFlights == 2
Flights ==
    {("Reporting_Airline" :> a) @@ ("Origin" :> o) @@ ("Dest" :> d) :
        a \in {"AA", "ZZ"}, o \in {"ATL", "XXX"}, d \in {"ORD"}}
FlightFrames == UNION {[1..n -> Flights] : n \in 0..MaxFlights}

\* the encoders argument: None, fitted encoders, an empty dict, a dict lacking Dest
EncoderArguments ==
    {NoneGlobal(<<>>), Some(FittedEncoders), Some(<<>>),
     Some(("Reporting_Airline" :> <<"AA", "DL", "NK">>) @@
          ("Origin" :> <<"ATL", "ORD", "TPA">>))}

CallEncode ==
    /\ op = ""
    /\ \E df \in FlightFrames, encoders \in EncoderArguments :
        /\ args' = [df |-> df, encoders |-> encoders]
        /\ ret' = encode_categorical_features(df, encoders)
    /\ op' = "encode_categorical_features"
    /\ UNCHANGED frameUtil

\* encode_categorical_features has been called in inference mode with an encoder for
\* every column, on a frame holding a value one of them has not seen
UnseenValueEncoded ==
    /\ op = "encode_categorical_features"
    /\ ~args.encoders.isNone
    /\ \A c \in 1..Len(CATEGORICAL_COLUMNS) :
           CATEGORICAL_COLUMNS[c] \in DOMAIN args.encoders.obj
    /\ \E i \in 1..Len(args.df), c \in 1..Len(CATEGORICAL_COLUMNS) :
           \A k \in 1..Len(args.encoders.obj[CATEGORICAL_COLUMNS[c]]) :
               args.encoders.obj[CATEGORICAL_COLUMNS[c]][k]
                   # args.df[i][CATEGORICAL_COLUMNS[c]]

\* C17: applying a fitted encoder to a value not seen at fit time never raises and
\* yields the code 0; here on the inference mode of encode_categorical_features.
C17_UnseenValueEncodesToZero ==
    UnseenValueEncoded =>
        /\ ret.exc = ""
        /\ \A i \in 1..Len(args.df), c \in 1..Len(CATEGORICAL_COLUMNS) :
               LET col == CATEGORICAL_COLUMNS[c]
               IN (\A k \in 1..Len(args.encoders.obj[col]) :
                       args.encoders.obj[col][k] # args.df[i][col])
                      => ret.val.df[i][col \o "_encoded"] = 0

NextUtil ==
    \/ CallSplit
    \/ CallTimeCategory
    \/ CallParseTime
    \/ CallEncode

SpecUtil == InitCalls /\ [][NextUtil]_vars

-----------------------------------------------------------------------------
(* Serving prepare_features as a function of the request and of the encoders the   *)
(* process holds.                                                                   *)

\* encoders whose dict lacks the Dest column
EncodersWithoutDest ==
    ("Reporting_Airline" :> <<"AA", "DL", "NK">>) @@ ("Origin" :> <<"ATL", "ORD", "TPA">>)

\* label_encoders: None, a fitted dict, an empty dict, a dict lacking a column
EncoderGlobals ==
    {NoneGlobal(<<>>), Some(FittedEncoders), Some(<<>>), Some(EncodersWithoutDest)}

FeatureRequest(o, d, a, h, ah) == o @@ d @@ a @@ h @@ ah

\* every origin, destination and airline (known, unknown or absent) against a few
\* hours, and every pair of hours against a few routes
FeatureRequests ==
    {FeatureRequest(o, d, a, h, ah) :
        o \in Opt("origin", {"ORD", "TPA", "ZZZ"}),
        d \in Opt("destination", {"ORD", "LAX", "XXX"}),
        a \in Opt("airline", {"NK", "ZZ"}),
        h \in Opt("depHour", {18}),
        ah \in Opt("arrHour", {2})}
    \cup
    {FeatureRequest(o, d, <<>>, h, ah) :
        o \in {"origin" :> "ORD"},
        d \in Opt("destination", {"LAX"}),
        h \in Opt("depHour", ProbeHours),
        ah \in Opt("arrHour", ProbeHours)}

InitFeat ==
    /\ op = ""
    /\ model = NoneGlobal(NewModel)
    /\ label_encoders \in EncoderGlobals
    /\ shap_explainer = NoneGlobal(NoBooster)
    /\ files = <<>>
    /\ data \in FeatureRequests
    /\ features = <<>>
    /\ features_df = NotCalled
    /\ duration_prediction = 0
    /\ raw_data = NoRaw
    /\ jitter = 0
    /\ base_prob = 0
    /\ probability = 0
    /\ shap_values = NotCalled
    /\ sim_shap = NotCalled
    /\ shap_out = ShapNotCalled
    /\ response = NoResponse
    /\ InitModel
    /\ InitUtil

\* features, raw_data = prepare_features(data)
ProbePrepareFeatures ==
    /\ op = ""
    /\ op' = "prepare_features"
    /\ \E pf \in {prepare_features(data)} :
        /\ features' = pf[1]
        /\ raw_data' = pf[2]
    /\ UNCHANGED <<data, features_df, duration_prediction, jitter, base_prob, probability,
                   shap_values, sim_shap, shap_out, response>>
    /\ UNCHANGED <<globalVars, modelVars, utilVars, rng, files>>

\* features_df = pd.DataFrame([features])[FEATURE_COLUMNS]
ProbeFeaturesDf ==
    /\ op = "prepare_features"
    /\ op' = "features_df"
    /\ features_df' = SelectColumns(features, FEATURE_COLUMNS)
    /\ UNCHANGED <<data, features, duration_prediction, raw_data, jitter, base_prob,
                   probability, shap_values, sim_shap, shap_out, response>>
    /\ UNCHANGED <<globalVars, modelVars, utilVars, rng, files>>

NextFeat == ProbePrepareFeatures \/ ProbeFeaturesDf

SpecFeat == InitFeat /\ [][NextFeat]_vars

\* the states in which prepare_features has returned
FeaturesPrepared == op \in {"prepare_features", "features_df"}

\* the hours of the request, with the defaults of lines 139-140
RequestDepHour == DictGet(data, "depHour", 14)
RequestArrHour == DictGet(data, "arrHour", 17)

\* C15: for every pair of integer hours, CRSElapsedTime is max(60, e) with
\* e = (arrHour - depHour) * 60, plus 1440 when that is negative; it is at least 60
\* and, for hours in 0..23, at most 1380.
C15_ElapsedTime ==
    FeaturesPrepared =>
        LET diff == (RequestArrHour - RequestDepHour) * 60
            e == IF diff >= 0 THEN diff ELSE diff + 1440
            t == features["CRSElapsedTime"]
        IN /\ e >= 60 => t = e
           /\ e < 60 => t = 60
           /\ t >= 60
           /\ (RequestDepHour \in 0..23 /\ RequestArrHour \in 0..23) => t <= 1380

\* C15 case: a flight over midnight, 23 to 22, the longest of a day
C15_Witness ==
    /\ FeaturesPrepared
    /\ RequestDepHour = 23
    /\ RequestArrHour = 22
    /\ features["CRSElapsedTime"] = 1380

\* what the request names, None when the key is absent
RequestOrigin == DictGet(data, "origin", None)
RequestDest == DictGet(data, "destination", None)
RequestAirline == DictGet(data, "airline", "AA")

\* the value is not among the classes the process holds for the column
UnknownToEncoders(col, value) ==
    \/ label_encoders.isNone
    \/ col \notin DOMAIN label_encoders.obj
    \/ \A i \in 1..Len(label_encoders.obj[col]) : label_encoders.obj[col][i] # value

\* C16: when the origin or the destination is absent from the airport table and
\* unknown to the encoders, or missing from the request, prepare_features returns a
\* feature vector with all 12 canonical keys, Distance = 1000 and the code 0 for
\* every categorical value the encoders do not know.
C16_UnknownAirports ==
    FeaturesPrepared =>
        /\ DOMAIN features = {FEATURE_COLUMNS[i] : i \in 1..Len(FEATURE_COLUMNS)}
        /\ (RequestOrigin \notin AIRPORTS \/ RequestDest \notin AIRPORTS)
               => features["Distance"] = 10000
        /\ UnknownToEncoders("Origin", RequestOrigin) => features["Origin_encoded"] = 0
        /\ UnknownToEncoders("Dest", RequestDest) => features["Dest_encoded"] = 0
        /\ UnknownToEncoders("Reporting_Airline", RequestAirline)
               => features["Reporting_Airline_encoded"] = 0

\* C16 case: fitted encoders, an origin they know and a destination that neither
\* they nor the airport table know
C16_Witness ==
    /\ FeaturesPrepared
    /\ label_encoders = Some(FittedEncoders)
    /\ RequestOrigin = "TPA"
    /\ RequestDest = "XXX"
    /\ features["Origin_encoded"] = 2
    /\ features["Dest_encoded"] = 0
    /\ features["Distance"] = 10000

-----------------------------------------------------------------------------
(* The column lists of training and serving *)

\* the frame of the request has been built
FrameBuilt == op = "features_df"

\* C18: the frame handed to the regressor at serving time has exactly the 12
\* canonical columns in canonical order for every request, and the list serving
\* uses (config.FEATURE_COLUMNS) equals, in content and order, the lists of the
\* training side (the default inside utils.prepare_features and
\* utils.get_feature_columns).
C18_OneColumnList ==
    /\ FEATURE_COLUMNS = get_feature_columns
    /\ FEATURE_COLUMNS = DefaultFeatureCols
    /\ Len(FEATURE_COLUMNS) = 12
    /\ FrameBuilt =>
        /\ features_df.exc = ""
        /\ features_df.val.columns = get_feature_columns
        /\ features_df.val.columns = DefaultFeatureCols
        /\ DOMAIN features_df.val.row = {get_feature_columns[i] : i \in 1..12}
        /\ DOMAIN features = DOMAIN features_df.val.row
        /\ \A i \in 1..12 :
               features_df.val.row[get_feature_columns[i]] = features[get_feature_columns[i]]

\* C18 case: the frame of a request encoded by fitted encoders
C18_Witness ==
    /\ FrameBuilt
    /\ label_encoders = Some(FittedEncoders)
    /\ features_df.exc = ""
    /\ features_df.val.columns[8] = "Distance"
    /\ features_df.val.row["Origin_encoded"] = 2
    /\ features_df.val.row["Distance"] = 21541

-----------------------------------------------------------------------------
(* The serving process without its artifacts *)

\* an artifact is missing, and the other one, if it is there, can be read
ArtifactMissing ==
    /\ (MODEL_FILE \notin DOMAIN files \/ ENCODERS_FILE \notin DOMAIN files)
    /\ MODEL_FILE \in DOMAIN files => files[MODEL_FILE].format = "json"
    /\ ENCODERS_FILE \in DOMAIN files => files[ENCODERS_FILE].format = "pickle"

\* a request with a body whose month and day of week are those of a calendar
WellFormed(d) ==
    /\ DOMAIN d # {}
    /\ DictGet(d, "month", 6) \in 1..12
    /\ DictGet(d, "dayOfWeek", 3) \in 0..7

\* the duration is 15 + 60 * p plus a draw from [0, 20] when p > 0.25, else 0
IsSynthesized(duration, p) ==
    IF p > 250 THEN duration - (15000 + 60 * p) \in 0..20000 ELSE duration = 0

\* C19: if the model artifact or the encoder artifact is missing when load_model
\* runs at startup, load_model completes without raising, the status reports
\* modelLoaded = false, and every later well-formed request succeeds with the
\* probability heuristic and the synthesized duration.
C19_MissingArtifactMeansHeuristicOnly ==
    ArtifactMissing =>
        /\ op # "crashed"
        /\ op # "" => ~ModelInfo.modelLoaded
        /\ (op = "predict" /\ WellFormed(data)) =>
            /\ response.status = 200
            /\ ~response.modelUsed
            /\ IsSynthesized(duration_prediction, probability)

\* the answer in `response` was computed without a fitted model
HeuristicAnswer == Answered /\ ~ModelFitted

\* the answer in `response` was computed with a fitted model
ModelAnswer == Answered /\ ModelFitted

\* C20: with no fitted model, predict sets modelUsed = false and the duration is
\* 15 + 60 * p + jitter when p > 0.25 and 0 when p <= 0.25; with a fitted model,
\* modelUsed = true and the duration is the regressor's output.
C20_DurationSource ==
    /\ HeuristicAnswer =>
        /\ ~response.modelUsed
        /\ probability > 250 =>
               duration_prediction - (15000 + 60 * probability) \in 0..20000
        /\ probability <= 250 => duration_prediction = 0
    /\ ModelAnswer =>
        /\ response.modelUsed
        /\ duration_prediction =
               model.obj.model.booster.base
                   + model.obj.model.booster.slope * features_df.val.row["dep_hour"]
    /\ Answered =>
        response.expectedDelay =
            Round1(IF duration_prediction > 0 THEN duration_prediction ELSE 0)

\* C20 case: no model, a probability above 0.25 and a draw that is not zero
C20_Witness ==
    /\ HeuristicAnswer
    /\ probability > 250
    /\ duration_prediction > 15000 + 60 * probability
    /\ response.expectedDelay > 0
    /\ ~response.modelUsed


-----------------------------------------------------------------------------
(* The fields of a prediction result *)

\* C21: every successful prediction result has expectedDelay >= 0 (a negative
\* regressor output is reported as 0), probability in [0.05, 0.85], riskLevel in
\* {low, medium, high} and at most 8 attribution records, with a fitted model
\* and without one.
C21_ResultInvariants ==
    Answered =>
        /\ response.expectedDelay >= 0
        /\ duration_prediction < 0 => response.expectedDelay = 0
        /\ probability \in PROB_MIN..PROB_MAX
        /\ response.riskLevel \in {"low", "medium", "high"}
        /\ Len(response.shapValues) <= 8

\* C21 case: the fitted regressor's output is negative, and the result reports 0
\* with its 8 model-derived records
C21_Witness ==
    /\ ModelAnswer
    /\ duration_prediction < 0
    /\ response.expectedDelay = 0
    /\ shap_out.strategy = "model"
    /\ Len(response.shapValues) = 8

-----------------------------------------------------------------------------
(* Artifacts that cannot be read *)

\* an artifact is on disk and loading it raises
ArtifactUnreadable ==
    \/ MODEL_FILE \in DOMAIN files /\ files[MODEL_FILE].format # "json"
    \/ ENCODERS_FILE \in DOMAIN files /\ files[ENCODERS_FILE].format # "pickle"

\* C22: if loading the model or the encoder artifact raises at process start, the
\* process is not terminated: it runs without a usable model, modelLoaded is
\* false, and later prediction requests succeed.
C22_LoadFailureDegrades ==
    ArtifactUnreadable =>
        /\ op # "crashed"
        /\ op # "" => ~ModelInfo.modelLoaded
        /\ (op = "predict" /\ WellFormed(data)) => response.status = 200


-----------------------------------------------------------------------------
(* is_fitted and the ensemble *)

\* C28: after any sequence of fit, load, save, predict and get_feature_importance
\* calls, failed fits and loads included, is_fitted = true implies that the model
\* attribute holds a completely trained or loaded ensemble, never a freshly
\* constructed one.
C28_FittedMeansTrained ==
    /\ m.is_fitted => m.model.state = "fitted"
    /\ m2.is_fitted => m2.model.state = "fitted"


-----------------------------------------------------------------------------
(* One attribution strategy per list *)

\* the records of a list
Records(list) == {list[i] : i \in 1..Len(list)}

\* the records the loop builds from the explainer's row in the last request
ModelDerived ==
    IF shap_values.exc = "" THEN Records(ModelShapRecords(features, shap_values.val))
    ELSE {}

\* the records generate_simulated_shap builds for the last request
Simulated ==
    LET sim == generate_simulated_shap(raw_data)
    IN IF sim.exc = "" THEN Records(sim.val) ELSE {}

\* C29: the list returned by generate_shap_values is either entirely
\* model-derived records or entirely simulated records, never a mixture, even when
\* the explainer fails after some model-derived records have been built.
C29_OneStrategy ==
    ShapReturned =>
        \/ shap_out.strategy = "model" /\ Records(shap_out.val) \subseteq ModelDerived
        \/ shap_out.strategy = "simulated" /\ Records(shap_out.val) \subseteq Simulated

\* C29 case: the explainer's row was too short, so records were built before the
\* IndexError, none of them simulated, and the list returned is the simulated one
C29_Witness ==
    /\ ShapReturned
    /\ shap_values.exc = ""
    /\ Len(shap_values.val) < Len(FEATURE_COLUMNS)
    /\ ModelDerived # {}
    /\ ModelDerived \cap Simulated = {}
    /\ Len(shap_out.val) = 8
    /\ Records(shap_out.val) \subseteq Simulated


-----------------------------------------------------------------------------
(* The result of predict without a fitted model, as a function of the probability  *)
(* and of the draw.  The probability is in ten-thousandths here, the resolution of  *)
(* the result's 'probability' field (round(probability, 4)); the duration stays in  *)
(* thousandths of a minute, so 60 * p is 6 per ten-thousandth.                      *)

\* variant of HeuristicResult: the threshold 0.25 is included
HeuristicResultInclusive(p, dj) ==
    LET duration == IF p >= 2500 THEN 15000 + p * 6 + dj ELSE 0
    IN [duration_prediction |-> duration,
        expectedDelay |-> Round1(IF duration > 0 THEN duration ELSE 0),
        riskLevel |-> IF p >= 5000 THEN "high" ELSE IF p >= 3000 THEN "medium" ELSE "low"]

\* lines 496-522 when the else branch of line 496 runs
HeuristicResult(p, dj) ==
    LET duration == IF p > 2500 THEN 15000 + p * 6 + dj ELSE 0
    IN [duration_prediction |-> duration,
        expectedDelay |-> Round1(IF duration > 0 THEN duration ELSE 0),
        riskLevel |-> IF p >= 5000 THEN "high" ELSE IF p >= 3000 THEN "medium" ELSE "low"]

\* the values np.clip(prob, 0.05, 0.85) can return
ClippedProbabilities == (PROB_MIN * 10)..(PROB_MAX * 10)

CallHeuristic ==
    /\ op = ""
    /\ \E p \in ClippedProbabilities, dj \in DurationJitters :
        /\ args' = [probability |-> p, draw |-> dj]
        /\ ret' = Returned(HeuristicResult(p, dj))
        /\ rng' = rng + (IF p > 2500 THEN 1 ELSE 0)
    /\ op' = "predict: no fitted model"
    /\ UNCHANGED <<globalVars, requestVars, modelVars, files, train, threads>>

NextHeur == CallHeuristic

SpecHeur == InitCalls /\ [][NextHeur]_vars

HeuristicReturned == op = "predict: no fitted model"

-----------------------------------------------------------------------------
(* utils.py: load_data_from_db, engineer_features, handle_missing_values,          *)
(* prepare_features                                                                 *)

\* a row of the table flights; the numeric columns that can be NULL are Floats
DbRow(date, airline, origin, distance, dep, target, cancelled) ==
    [year |-> date[1], month |-> date[2], quarter |-> Quarter(date[2]),
     day_of_month |-> date[3], day_of_week |-> 3, airline_id |-> airline,
     origin_airport_id |-> origin, dest_airport_id |-> "ORD", distance |-> distance,
     crs_dep_time |-> dep, crs_arr_time |-> IntTime(1730),
     crs_elapsed_time |-> Float(120), arr_del15 |-> 1, arr_delay_minutes |-> target,
     cancelled |-> cancelled, diverted |-> 0]

\* the database file: whether the table can be queried, and its rows
Database(ok, flights) == [ok |-> ok, flights |-> flights]

\* WHERE year > 2001 AND cancelled = 0 AND diverted = 0 AND arr_del15 = 1
Selected(r) == r.year > 2001 /\ r.cancelled = 0 /\ r.diverted = 0 /\ r.arr_del15 = 1

\* r placed after every row whose date is at most its own
InsertByDate(sorted, r) ==
    LET k == Cardinality({i \in 1..Len(sorted) :
                 DateLeq(<<sorted[i].year, sorted[i].month, sorted[i].day_of_month>>,
                         <<r.year, r.month, r.day_of_month>>)})
    IN SubSeq(sorted, 1, k) \o <<r>> \o SubSeq(sorted, k + 1, Len(sorted))

\* ORDER BY year, month, day_of_month
RECURSIVE OrderByDate(_)
OrderByDate(rows) ==
    IF rows = <<>> THEN <<>>
    ELSE InsertByDate(OrderByDate(SubSeq(rows, 1, Len(rows) - 1)), rows[Len(rows)])

\* the SELECT list with its AS names; the frame numbers its rows
QueryResult(rows) ==
    [i \in 1..Len(rows) |->
        [index |-> i, Year |-> rows[i].year, Month |-> rows[i].month,
         Quarter |-> rows[i].quarter, DayofMonth |-> rows[i].day_of_month,
         DayOfWeek |-> rows[i].day_of_week, Reporting_Airline |-> rows[i].airline_id,
         Origin |-> rows[i].origin_airport_id, Dest |-> rows[i].dest_airport_id,
         Distance |-> rows[i].distance, CRSDepTime |-> rows[i].crs_dep_time,
         CRSArrTime |-> rows[i].crs_arr_time, CRSElapsedTime |-> rows[i].crs_elapsed_time,
         ArrDel15 |-> rows[i].arr_del15, ArrDelayMinutes |-> rows[i].arr_delay_minutes]]

load_data_from_db(db) ==
    IF ~db.ok THEN Raised("DatabaseError")
    ELSE Returned(QueryResult(OrderByDate(SelectSeq(db.flights, Selected))))

\* df[col].apply(f) raises what f raises on the first row it raises on
engineer_features(df) ==
    LET dep(i) == parse_time_to_hour(df[i].CRSDepTime)
        arr(i) == parse_time_to_hour(df[i].CRSArrTime)
    IN IF \E i \in 1..Len(df) : dep(i).exc # "" \/ arr(i).exc # ""
       THEN Raised("ValueError")
       ELSE Returned([i \in 1..Len(df) |->
                df[i] @@ ("dep_hour" :> dep(i).val) @@ ("arr_hour" :> arr(i).val) @@
                         ("dep_time_category" :> TimeCategoryOf(dep(i).val))])

\* the values of a column that are not null
Present(df, col) == {i \in 1..Len(df) : ~df[i][col].nan}
Missing(df, col) == {i \in 1..Len(df) : df[i][col].nan}

\* Series.mode()[0]: the most frequent value, the smallest of them on a tie
Mode(df, col) ==
    LET count(v) == Cardinality({i \in Present(df, col) : df[i][col].v = v})
        values == {df[i][col].v : i \in Present(df, col)}
    IN CHOOSE v \in values :
           \A w \in values : count(v) > count(w) \/ (count(v) = count(w) /\ v <= w)

\* the k-th smallest value of a column
Kth(df, col, k) ==
    CHOOSE v \in {df[i][col].v : i \in Present(df, col)} :
        /\ Cardinality({i \in Present(df, col) : df[i][col].v < v}) < k
        /\ Cardinality({i \in Present(df, col) : df[i][col].v <= v}) >= k

\* Series.median(): the middle value, or the mean of the two middle values
Median(df, col) ==
    LET n == Cardinality(Present(df, col))
    IN IF n % 2 = 1 THEN Kth(df, col, (n + 1) \div 2)
       ELSE (Kth(df, col, n \div 2) + Kth(df, col, n \div 2 + 1)) \div 2

\* what handle_missing_values has done so far: the frame, what it has printed, and
\* the exception if it has raised
Handling(exc, df, printed) == [exc |-> exc, val |-> df, printed |-> printed]

Line(text, n) == [text |-> text, n |-> n]

\* df[col].fillna(value, inplace=True): the column of df is filled when df[col] is a
\* view of df; under copy-on-write (cow) df[col] is a copy and df stays as it was
FillNa(df, col, value, cow) ==
    IF cow THEN df
    ELSE [i \in 1..Len(df) |->
            IF df[i][col].nan THEN [df[i] EXCEPT ![col] = Float(value)] ELSE df[i]]

\* one round of the loop of lines 207-213
FillWithMode(h, col, verbose, cow) ==
    IF h.exc # "" \/ Missing(h.val, col) = {} THEN h
    ELSE IF Present(h.val, col) = {} THEN Handling("KeyError", h.val, h.printed)
    ELSE Handling("", FillNa(h.val, col, Mode(h.val, col), cow),
                  IF verbose
                  THEN Append(h.printed, Line("Filled " \o col \o " missing values with mode",
                                              Cardinality(Missing(h.val, col))))
                  ELSE h.printed)

\* one round of the loop of lines 216-222; the median of no values is NaN, and
\* filling with NaN changes nothing
FillWithMedian(h, col, verbose, cow) ==
    IF h.exc # "" \/ Missing(h.val, col) = {} THEN h
    ELSE Handling("",
                  IF Present(h.val, col) = {} THEN h.val
                  ELSE FillNa(h.val, col, Median(h.val, col), cow),
                  IF verbose
                  THEN Append(h.printed, Line("Filled " \o col \o " missing values with median",
                                              Cardinality(Missing(h.val, col))))
                  ELSE h.printed)

\* variant of DropMissingTarget: the count is printed whatever verbose is
DropMissingTargetLoud(df, verbose) ==
    LET kept == SelectSeq(df, LAMBDA r : ~r.ArrDelayMinutes.nan)
    IN Handling("", kept,
                IF Len(df) - Len(kept) > 0
                THEN <<Line("Dropped rows with missing target", Len(df) - Len(kept))>>
                ELSE <<>>)

\* lines 198-204: df.dropna(subset=['ArrDelayMinutes']) and its report
DropMissingTarget(df, verbose) ==
    LET kept == SelectSeq(df, LAMBDA r : ~r.ArrDelayMinutes.nan)
    IN Handling("", kept,
                IF verbose /\ Len(df) - Len(kept) > 0
                THEN <<Line("Dropped rows with missing target", Len(df) - Len(kept))>>
                ELSE <<>>)

handle_missing_values(df, verbose, cow) ==
    LET h0 == DropMissingTarget(df, verbose)
        h1 == FillWithMode(h0, "dep_hour", verbose, cow)
        h2 == FillWithMode(h1, "arr_hour", verbose, cow)
        h3 == FillWithMode(h2, "dep_time_category", verbose, cow)
        h4 == FillWithMedian(h3, "CRSElapsedTime", verbose, cow)
        h5 == FillWithMedian(h4, "Distance", verbose, cow)
    IN IF h5.exc # "" THEN h5
       ELSE Handling("", h5.val,
                     IF verbose THEN Append(h5.printed, Line("Final dataset", Len(h5.val)))
                     ELSE h5.printed)

\* utils.prepare_features: X = df[feature_cols], y = df['ArrDelayMinutes']; every
\* row keeps its index label
SelectFeatures(df, feature_cols) ==
    IF \E i \in 1..Len(df), k \in 1..Len(feature_cols) : feature_cols[k] \notin DOMAIN df[i]
    THEN Raised("KeyError")
    ELSE Returned(
        [X |-> [i \in 1..Len(df) |->
                    [c \in {"index"} \cup {feature_cols[k] : k \in 1..Len(feature_cols)} |->
                        df[i][c]]],
         y |-> [i \in 1..Len(df) |->
                    [index |-> df[i].index, ArrDelayMinutes |-> df[i].ArrDelayMinutes]]])


-----------------------------------------------------------------------------
(* model.py: evaluate_model, save_metrics; config.py: the paths and the test size   *)

METRICS_FILE == "output/metrics.json"

\* TEST_SIZE = 0.2, in tenths
TEST_SIZE == 2

\* the float matrix XGBoost reads from a frame; a missing value adds nothing to the
\* score of the ensemble
Matrix(row) ==
    [c \in DOMAIN row \ {"index"} |->
        IF c \in {"Distance", "CRSElapsedTime", "dep_hour", "arr_hour", "dep_time_category"}
        THEN (IF row[c].nan THEN 0 ELSE row[c].v)
        ELSE row[c]]

\* evaluate_model: y_pred = model.predict(X_test), then the scikit-learn metrics,
\* which raise ValueError on arrays of no samples; the durations are in thousandths
\* of a minute
evaluate_model(self, X_test, y_test) ==
    IF ~self.is_fitted THEN Raised("ValueError")
    ELSE IF self.model.state # "fitted" THEN Raised("NotFittedError")
    ELSE IF Len(X_test) = 0 THEN Raised("ValueError")
    ELSE LET y_pred == [i \in 1..Len(X_test) |-> Predict(self, Matrix(X_test[i])).out.val]
         IN Returned([predictions |-> y_pred,
                      residuals |-> [i \in 1..Len(X_test) |->
                                        y_test[i].ArrDelayMinutes.v * 1000 - y_pred[i]],
                      min_predicted |-> CHOOSE v \in {y_pred[i] : i \in 1..Len(X_test)} :
                                            \A i \in 1..Len(X_test) : v <= y_pred[i],
                      max_predicted |-> CHOOSE v \in {y_pred[i] : i \in 1..Len(X_test)} :
                                            \A i \in 1..Len(X_test) : v >= y_pred[i]])

\* save_metrics: the metrics without 'predictions' and 'residuals', as JSON
save_metrics(metrics, fs, output_path) ==
    (output_path :> [min_predicted |-> metrics.min_predicted,
                     max_predicted |-> metrics.max_predicted, format |-> "json"]) @@ fs

\* fit, lines 74-77: the sets XGBoost evaluates after every round; the last one
\* drives early stopping (early_stopping_rounds in XGBOOST_PARAMS)
EvalSet(X_train, y_train, X_val, y_val) ==
    <<[X |-> X_train, y |-> y_train]>> \o
    (IF ~X_val.isNone /\ ~y_val.isNone THEN <<[X |-> X_val.obj, y |-> y_val.obj]>> ELSE <<>>)

-----------------------------------------------------------------------------
(* main.py: the training pipeline, one action per step of main                     *)

MaxTableRows == 3

\* rows of the table: a flight of 2023, a flight of 2024 with no departure time and
\* no distance, a flight of 2024 with no delay recorded, a flight of 2024 with all
\* its values, and a cancelled flight of 2001
TableRows ==
    {DbRow(<<2023, 12, 31>>, "AA", "ATL", Float(6000), IntTime(730), Float(45), 0),
     DbRow(<<2024, 1, 1>>, "DL", "TPA", NaN, NaNTime, Float(20), 0),
     DbRow(<<2024, 1, 2>>, "AA", "ATL", Float(6000), IntTime(1815), NaN, 0),
     DbRow(<<2024, 1, 3>>, "DL", "ATL", Float(21540), IntTime(1815), Float(75), 0),
     DbRow(<<2001, 5, 5>>, "NK", "ORD", Float(6000), IntTime(900), Float(30), 1)}

Tables == UNION {[1..n -> TableRows] : n \in 0..MaxTableRows}

\* main's arguments and environment, and its locals before the first step
Start(db, quiet, no_save, test_size, cow) ==
    [pc |-> "start", exc |-> "", started |-> <<>>, finished |-> <<>>,
     db |-> db, verbose |-> ~quiet, no_save |-> no_save, test_size |-> test_size,
     cow |-> cow,
     df |-> <<>>, before |-> <<>>, printed |-> <<>>, label_encoders |-> <<>>,
     X |-> <<>>, y |-> <<>>,
     X_train |-> <<>>, X_test |-> <<>>, y_train |-> <<>>, y_test |-> <<>>,
     fit |-> [X_train |-> <<>>, y_train |-> <<>>, eval_set |-> <<>>],
     metrics |-> <<>>, feature_importance |-> <<>>]

Starts ==
    {Start(Database(TRUE, t), quiet, no_save, TEST_SIZE, cow) :
        t \in Tables, quiet \in BOOLEAN, no_save \in BOOLEAN, cow \in BOOLEAN}
      \cup {Start(Database(FALSE, <<>>), FALSE, FALSE, TEST_SIZE, FALSE)}

InitTrain ==
    /\ op = ""
    /\ InitGlobals
    /\ InitRequest
    /\ InitModel
    /\ args = <<>>
    /\ ret = NotCalled
    /\ files = <<>>
    /\ train \in Starts
    /\ threads = NoThreads
    /\ rng = 0

\* variant of Before: fit is called before the split
BeforeFitFirst(step) ==
    CASE step = "load" -> "start"
      [] step = "engineer" -> "load"
      [] step = "impute" -> "engineer"
      [] step = "encode" -> "impute"
      [] step = "prepare" -> "encode"
      [] step = "fit" -> "prepare"
      [] step = "split" -> "fit"
      [] step = "evaluate" -> "split"
      [] step = "importance" -> "evaluate"
      [] step = "persist" -> "importance"

\* the statement of main that precedes a step (steps 1 to 10 of lines 95-178)
Before(step) ==
    CASE step = "load" -> "start"
      [] step = "engineer" -> "load"
      [] step = "impute" -> "engineer"
      [] step = "encode" -> "impute"
      [] step = "prepare" -> "encode"
      [] step = "split" -> "prepare"
      [] step = "fit" -> "split"
      [] step = "evaluate" -> "fit"
      [] step = "importance" -> "evaluate"
      [] step = "persist" -> "importance"

\* control is at the statement of `step`
At(step) == train.pc = Before(step)

\* the step has returned: control moves on
Finish(t, step) ==
    [t EXCEPT !.pc = step, !.started = Append(@, step), !.finished = Append(@, step)]

\* the step has raised (or called sys.exit): main is left
Leave(t, step, exc) ==
    [t EXCEPT !.pc = "exit", !.exc = exc, !.started = Append(@, step)]

frameTrain == <<globalVars, requestVars, args, ret, m2, saved, last, threads, rng>>

\* step 1, lines 98-103
TrainLoad ==
    /\ At("load")
    /\ \E r \in {load_data_from_db(train.db)} :
        train' = IF r.exc # "" THEN Leave(train, "load", "SystemExit")
                 ELSE Finish([train EXCEPT !.df = r.val], "load")
    /\ op' = "load_data_from_db"
    /\ UNCHANGED <<frameTrain, m, files>>

\* step 2, line 108
TrainEngineer ==
    /\ At("engineer")
    /\ \E r \in {engineer_features(train.df)} :
        train' = IF r.exc # "" THEN Leave(train, "engineer", r.exc)
                 ELSE Finish([train EXCEPT !.df = r.val], "engineer")
    /\ op' = "engineer_features"
    /\ UNCHANGED <<frameTrain, m, files>>

\* step 3, line 113
TrainImpute ==
    /\ At("impute")
    /\ \E r \in {handle_missing_values(train.df, train.verbose, train.cow)} :
        train' = IF r.exc # ""
                 THEN Leave([train EXCEPT !.before = train.df, !.printed = r.printed],
                            "impute", r.exc)
                 ELSE Finish([train EXCEPT !.before = train.df, !.df = r.val,
                                           !.printed = r.printed], "impute")
    /\ op' = "handle_missing_values"
    /\ UNCHANGED <<frameTrain, m, files>>

\* step 4, lines 118-122
TrainEncode ==
    /\ At("encode")
    /\ \E r \in {encode_categorical_features(train.df, NoneGlobal(<<>>))} :
        train' = IF r.exc # "" THEN Leave(train, "encode", r.exc)
                 ELSE Finish([train EXCEPT !.df = r.val.df,
                                           !.label_encoders = r.val.encoders], "encode")
    /\ op' = "encode_categorical_features"
    /\ UNCHANGED <<frameTrain, m, files>>

\* step 5, line 127
TrainPrepare ==
    /\ At("prepare")
    /\ \E r \in {SelectFeatures(train.df, FEATURE_COLUMNS)} :
        train' = IF r.exc # "" THEN Leave(train, "prepare", r.exc)
                 ELSE Finish([train EXCEPT !.X = r.val.X, !.y = r.val.y], "prepare")
    /\ op' = "prepare_features"
    /\ UNCHANGED <<frameTrain, m, files>>

\* step 6, lines 132-134
TrainSplit ==
    /\ At("split")
    /\ \E r \in {temporal_train_test_split(train.X, train.y, train.df, train.test_size)} :
        train' = Finish([train EXCEPT !.X_train = r.X_train, !.X_test = r.X_test,
                                      !.y_train = r.y_train, !.y_test = r.y_test], "split")
    /\ op' = "temporal_train_test_split"
    /\ UNCHANGED <<frameTrain, m, files>>

\* step 7, lines 139-140: model.fit(X_train, y_train, X_test, y_test); XGBoost
\* raises on a training set of no rows
TrainFit ==
    /\ At("fit")
    /\ \E trained \in Boosters,
          fails \in (IF Len(train.X_train) = 0 THEN {TRUE} ELSE BOOLEAN) :
        \E r \in {Fit(NewModel, FEATURE_COLUMNS, trained, fails)} :
            /\ m' = r.obj
            /\ train' =
                 LET t == [train EXCEPT !.fit =
                             [X_train |-> train.X_train, y_train |-> train.y_train,
                              eval_set |-> EvalSet(train.X_train, train.y_train,
                                                   Some(train.X_test), Some(train.y_test))]]
                 IN IF r.out.exc # "" THEN Leave(t, "fit", r.out.exc)
                    ELSE Finish(t, "fit")
    /\ op' = "model.fit"
    /\ UNCHANGED <<frameTrain, files>>

\* step 8, line 145
TrainEvaluate ==
    /\ At("evaluate")
    /\ \E r \in {evaluate_model(m, train.X_test, train.y_test)} :
        train' = IF r.exc # "" THEN Leave(train, "evaluate", r.exc)
                 ELSE Finish([train EXCEPT !.metrics = r.val], "evaluate")
    /\ op' = "evaluate_model"
    /\ UNCHANGED <<frameTrain, m, files>>

\* step 9, line 150
TrainImportance ==
    /\ At("importance")
    /\ \E r \in {GetFeatureImportance(m)} :
        train' = IF r.out.exc # "" THEN Leave(train, "importance", r.out.exc)
                 ELSE Finish([train EXCEPT !.feature_importance = r.out.val], "importance")
    /\ op' = "model.get_feature_importance"
    /\ UNCHANGED <<frameTrain, m, files>>

\* step 10, lines 162-175, when --no-save is not given
TrainPersist ==
    /\ At("persist")
    /\ ~train.no_save
    /\ \E r \in {Save(m, files, MODEL_FILE, Some(train.label_encoders))} :
        /\ train' = IF r.out.exc # "" THEN Leave(train, "persist", r.out.exc)
                    ELSE Finish(train, "persist")
        /\ files' = IF r.out.exc # "" THEN r.fs
                    ELSE save_metrics(train.metrics, r.fs, METRICS_FILE)
    /\ op' = "model.save"
    /\ UNCHANGED <<frameTrain, m>>

NextTrain ==
    \/ TrainLoad \/ TrainEngineer \/ TrainImpute \/ TrainEncode \/ TrainPrepare
    \/ TrainSplit \/ TrainFit \/ TrainEvaluate \/ TrainImportance \/ TrainPersist

SpecTrain == InitTrain /\ [][NextTrain]_vars


-----------------------------------------------------------------------------
(* The order of the steps of main *)

Has(log, step) == \E i \in 1..Len(log) : log[i] = step
Position(log, step) == CHOOSE i \in 1..Len(log) : log[i] = step

ClaimedOrder ==
    <<"load", "engineer", "impute", "encode", "split", "fit", "evaluate", "persist">>

\* C25: main runs its stages in the order load, engineer, impute, encode, split,
\* fit, evaluate, persist: a stage starts only after every earlier stage has
\* finished, so fit never runs before split and persist never before evaluate;
\* no stage runs twice.
C25_StagesInOrder ==
    /\ \A i, j \in 1..Len(ClaimedOrder) :
          (i < j /\ Has(train.started, ClaimedOrder[j])) =>
              /\ Has(train.finished, ClaimedOrder[i])
              /\ Position(train.started, ClaimedOrder[i])
                     < Position(train.started, ClaimedOrder[j])
    /\ \A i, j \in 1..Len(train.started) :
          i # j => train.started[i] # train.started[j]

\* C25 case: a run that went through every step and saved its outputs
C25_Witness ==
    /\ train.pc = "persist"
    /\ train.finished = <<"load", "engineer", "impute", "encode", "prepare", "split",
                          "fit", "evaluate", "importance", "persist">>
    /\ METRICS_FILE \in DOMAIN files
    /\ MODEL_FILE \in DOMAIN files

-----------------------------------------------------------------------------
(* handle_missing_values, as main calls it *)

\* handle_missing_values has been called on train.before
ImputeCalled == Has(train.started, "impute")
ImputeReturned == Has(train.finished, "impute")

\* the index labels of a frame, in row order
Labels(df) == [i \in 1..Len(df) |-> df[i].index]

\* the rows of the frame the call was given whose target is not missing
WithTarget(df) == SelectSeq(df, LAMBDA r : ~r.ArrDelayMinutes.nan)
DroppedCount == Len(train.before) - Len(WithTarget(train.before))

Reported(n) == Has(train.printed, Line("Dropped rows with missing target", n))

\* the statement with a report on every call that drops a row
C26_DropsAndAlwaysReports ==
    /\ ImputeReturned => Labels(train.df) = Labels(WithTarget(train.before))
    /\ (ImputeCalled /\ DroppedCount > 0) => Reported(DroppedCount)

\* C26: handle_missing_values drops exactly the rows whose target is missing and
\* keeps the others in their order; it reports the number of dropped rows on every
\* call with verbose = True in which at least one row is dropped, and prints
\* nothing when verbose is False (main passes verbose = not args.quiet).
C26_DropsAndReportsWhenVerbose ==
    /\ ImputeReturned => Labels(train.df) = Labels(WithTarget(train.before))
    /\ (ImputeCalled /\ train.verbose /\ DroppedCount > 0) =>
           train.printed[1] = Line("Dropped rows with missing target", DroppedCount)
    /\ (ImputeCalled /\ DroppedCount = 0) =>
           \A n \in 0..Len(train.before) : ~Reported(n)
    /\ (ImputeCalled /\ ~train.verbose) => train.printed = <<>>

\* C26 case: a verbose call on three rows, the middle one without a target: rows 1
\* and 3 are kept in that order and one dropped row is reported
C26_Witness ==
    /\ ImputeReturned
    /\ train.verbose
    /\ Labels(train.before) = <<1, 2, 3>>
    /\ Labels(train.df) = <<1, 3>>
    /\ Reported(1)

-----------------------------------------------------------------------------
(* The rows given to fit *)

FitCalled == Has(train.started, "fit")

LabelSet(X) == {X[i].index : i \in 1..Len(X)}

\* C27: no row of the test partition (the rows evaluate_model is given) is passed
\* to DelayDurationModel.fit, neither as training data nor in the validation set
\* that drives early stopping.
C27_TestRowsNotInFit ==
    FitCalled =>
        /\ LabelSet(train.fit.X_train) \cap LabelSet(train.X_test) = {}
        /\ \A k \in 1..Len(train.fit.eval_set) :
               LabelSet(train.fit.eval_set[k].X) \cap LabelSet(train.X_test) = {}


-----------------------------------------------------------------------------
(* load_model run again while a request is being handled.  Flask serves every      *)
(* request in a thread of its own; the loader is one more thread.  A thread takes   *)
(* one step per access to a global of app.py or to NumPy's generator.               *)

\* the three globals as a request finds them at one of its reads
Bundle == <<model, label_encoders, shap_explainer>>

\* a read of the globals by the request, at a line of app.py
Observation(line) == [line |-> line, bundle |-> Bundle]

\* the loader and the request before they start; old and new are the globals before
\* the reload and the globals load_model assigns in all
Threads(loader, request, old, new, seen) ==
    [loader |-> loader, request |-> request, old |-> old, new |-> new, seen |-> seen]

InitReload ==
    /\ InitIdle
    /\ files \in ServingFileSystems

\* new artifacts are written next to the running process, and load_model is about
\* to be called again
Deploy ==
    /\ op = "load_model"
    /\ \E fs \in ServingFileSystems :
        /\ files' = fs
        /\ \E r \in {load_model(fs)} :
            /\ r.exc = ""
            /\ threads' = Threads("93", "idle", Bundle,
                                  <<r.model, r.label_encoders, r.shap_explainer>>, <<>>)
    /\ op' = "deployed"
    /\ UNCHANGED <<globalVars, requestVars, modelVars, args, ret, train, rng>>

Reloading == op = "deployed"

frameThreads == <<requestVars, modelVars, args, ret, train, files, op>>

\* lines 93-95 and 103-106: model = DelayDurationModel(), or model = None
Reload93 ==
    /\ Reloading /\ threads.loader = "93"
    /\ IF MODEL_FILE \in DOMAIN files
       THEN /\ model' = Some(NewModel)
            /\ threads' = [threads EXCEPT !.loader = "96"]
       ELSE /\ model' = NoneGlobal(NewModel)
            /\ threads' = [threads EXCEPT !.loader = "108"]
    /\ UNCHANGED <<label_encoders, shap_explainer, rng, frameThreads>>

\* line 96: model.load(model_path) fills the object the global already names
Reload96 ==
    /\ Reloading /\ threads.loader = "96"
    /\ \E r \in {Load(model.obj, files, MODEL_FILE)} :
        /\ model' = Some(r.obj)
        /\ threads' = [threads EXCEPT !.loader = IF r.out.exc = "" THEN "100" ELSE "raised"]
    /\ UNCHANGED <<label_encoders, shap_explainer, rng, frameThreads>>

\* lines 100-101: shap_explainer = shap.TreeExplainer(model.model)
Reload100 ==
    /\ Reloading /\ threads.loader = "100"
    /\ shap_explainer' = IF model.obj.model.state # "None"
                         THEN Some(model.obj.model.booster) ELSE shap_explainer
    /\ threads' = [threads EXCEPT !.loader = "108"]
    /\ UNCHANGED <<model, label_encoders, rng, frameThreads>>

\* lines 108-113: label_encoders = load_encoders(encoders_path), or None
Reload108 ==
    /\ Reloading /\ threads.loader = "108"
    /\ IF ENCODERS_FILE \in DOMAIN files /\ files[ENCODERS_FILE].format # "pickle"
       THEN /\ threads' = [threads EXCEPT !.loader = "raised"]
            /\ UNCHANGED label_encoders
       ELSE /\ label_encoders' = IF ENCODERS_FILE \in DOMAIN files
                                 THEN Some(files[ENCODERS_FILE].pickle)
                                 ELSE NoneGlobal(<<>>)
            /\ threads' = [threads EXCEPT !.loader = "done"]
    /\ UNCHANGED <<model, shap_explainer, rng, frameThreads>>

\* the request's step at a line that reads globals: the read is recorded
ReadAt(line, next) ==
    threads' = [threads EXCEPT !.request = next,
                               !.seen = Append(@, Observation(line))]

frameRead == <<globalVars, rng, frameThreads>>

\* prepare_features, lines 180-194: the reads of label_encoders
Request180 ==
    /\ Reloading /\ threads.request = "idle"
    /\ rng + 2 <= MaxDraws
    /\ ReadAt("180", "491")
    /\ UNCHANGED frameRead

\* line 491: model is not None and model.is_fitted
Request491 ==
    /\ Reloading /\ threads.request = "491"
    /\ ReadAt("491", IF ModelFitted THEN "493" ELSE "498")
    /\ UNCHANGED frameRead

\* line 493: model.predict(features_df); AttributeError when model is None by now,
\* an exception of predict when the object is not loaded
Request493 ==
    /\ Reloading /\ threads.request = "493"
    /\ ReadAt("493", IF model.isNone \/ model.obj.model.state # "fitted"
                     THEN "done" ELSE "495")
    /\ UNCHANGED frameRead

\* lines 495 and 498: simulate_probability draws from NumPy's generator (line 272);
\* without a fitted model and with p > 0.25, line 500 follows
Request495 ==
    /\ Reloading /\ threads.request \in {"495", "498"}
    /\ rng' = rng + 1
    /\ \E above \in BOOLEAN :
        threads' = [threads EXCEPT !.request =
                        IF threads.request = "498" /\ above THEN "500" ELSE "283"]
    /\ UNCHANGED <<globalVars, frameThreads>>

\* line 500: np.random.uniform(0, 20)
Request500 ==
    /\ Reloading /\ threads.request = "500"
    /\ rng' = rng + 1
    /\ threads' = [threads EXCEPT !.request = "283"]
    /\ UNCHANGED <<globalVars, frameThreads>>

\* line 283: shap_explainer is not None and model is not None
Request283 ==
    /\ Reloading /\ threads.request = "283"
    /\ ReadAt("283", IF ~shap_explainer.isNone /\ ~model.isNone THEN "286" ELSE "526")
    /\ UNCHANGED frameRead

\* line 286: shap_explainer.shap_values(features_df)
Request286 ==
    /\ Reloading /\ threads.request = "286"
    /\ ReadAt("286", "526")
    /\ UNCHANGED frameRead

\* line 526: 'modelUsed': model is not None and model.is_fitted
Request526 ==
    /\ Reloading /\ threads.request = "526"
    /\ ReadAt("526", "done")
    /\ UNCHANGED frameRead

\* the response is sent; the next request can come
RequestDone ==
    /\ Reloading /\ threads.request = "done"
    /\ threads' = [threads EXCEPT !.request = "idle", !.seen = <<>>]
    /\ UNCHANGED frameRead

NextReload ==
    \/ LoadModel \/ Deploy
    \/ Reload93 \/ Reload96 \/ Reload100 \/ Reload108
    \/ Request180 \/ Request491 \/ Request493 \/ Request495 \/ Request500
    \/ Request283 \/ Request286 \/ Request526 \/ RequestDone

SpecReload == InitReload /\ [][NextReload]_vars

\* the steps of the loader, taken without a request in between, assign what
\* load_model assigns
ReloadCompletes == (Reloading /\ threads.loader = "done") => Bundle = threads.new

\* C23: while load_model runs again, a request in flight finds at each of its
\* reads either the entire old (model, encoders, explainer) bundle or the entire
\* new one, never a mix and never a model object that is not loaded yet.
C23_ReadsSeeOneBundle ==
    Reloading =>
        \A k \in 1..Len(threads.seen) :
            threads.seen[k].bundle \in {threads.old, threads.new}

-----------------------------------------------------------------------------
(* What a request changes *)

\* C24: handling a prediction request leaves all process-wide shared state
\* unchanged: the model, the encoders, the explainer, and the state of NumPy's
\* global generator, from which simulate_probability and predict draw.
C24_RequestLeavesSharedState ==
    [][op' = "predict" => UNCHANGED <<model, label_encoders, shap_explainer, rng>>]_vars

====
